---- MODULE Spec2Model ----
(***************************************************************************)
(* A model of mcp-http-gateway: the GraphQL compiler and query builder of  *)
(* src/src/graphql/buildGraph.ts and the session, registration and         *)
(* dispatch code of src/src/graphql/introspection.ts.                      *)
(*                                                                         *)
(* Text is modelled as token sequences.  A name (a field name, a type      *)
(* name, a flat parameter name, a header name) is a sequence of segments;  *)
(* JavaScript's String.includes is the contiguous-subsequence test on      *)
(* segments, Array.includes is membership, and a template literal is the   *)
(* concatenation of its tokens (white space carries no meaning in          *)
(* GraphQL).  The segments used below are chosen so that none is a         *)
(* substring of another, which makes the segment test agree with the       *)
(* character test.                                                         *)
(***************************************************************************)
EXTENDS Integers, Sequences, FiniteSets, TLC

VARIABLES
  \* ---- query builder (buildGraph.ts), specification SpecQuery ----
  qpc,        \* "idle" | "built"
  qTool,      \* index of the root field in graph.query the call is about
  qParams,    \* the arguments of the tools/call: <<[k, v]>>, insertion order
  qFilters,   \* the filters object handed to requestData: <<[k, v]>>, insertion order
  qGraph,     \* graph.query, the compiled root fields
  qQuery,     \* the query text produced by buildQueryForRoot
  \* ---- compiler (buildGraph.ts, constructor), specification SpecCompile ----
  cpc,        \* "idle" | "root" | "fields" | "args" | "filter" | "done"
  cSchema,    \* which introspection result is compiled
  cDepth,     \* config.pathDepth
  cRoot,      \* index of the root field the constructor's loop is at
  cArg,       \* index of the argument the args loop is at
  cStack,     \* the activations of the two recursive traversals, innermost last
  cTool,      \* the root field's entry being assembled
  cGraph,     \* graph.query so far
  \* ---- gateway (introspection.ts), specification Spec ----
  cfg,        \* the configuration object (read-only after load)
  running,    \* the server process is alive
  transports, \* own keys of the transports object: ids of registered sessions
  sessions,   \* one record per GET /mcp received so far, by session number
  event,      \* the last thing the gateway did that can be seen from outside
  \* ---- gateway under the streaming transport, specification SpecStream ----
  streams     \* one record per POST /mcp received so far

queryVars == <<qpc, qTool, qParams, qFilters, qGraph, qQuery>>

compVars == <<cpc, cSchema, cDepth, cRoot, cArg, cStack, cTool, cGraph>>

gateVars == <<cfg, running, transports, sessions, event>>

vars == <<qpc, qTool, qParams, qFilters, qGraph, qQuery,
          cpc, cSchema, cDepth, cRoot, cArg, cStack, cTool, cGraph,
          cfg, running, transports, sessions, event, streams>>

-----------------------------------------------------------------------------
(* Sequences and names *)

Range(s) == {s[i] : i \in 1..Len(s)}

Last(s) == s[Len(s)]

\* Array.prototype.slice(from) and slice(from, to) with 0-based indices
SliceFrom(s, from) == SubSeq(s, from + 1, Len(s))

SliceTo(s, from, to) == SubSeq(s, from + 1, to)

\* String.prototype.slice(1, -1) on a text held as tokens: the text is either
\* empty or opens with "{" and closes with "}", each a token of its own
Slice1(s) == SubSeq(s, 2, Len(s) - 1)

\* String.prototype.includes on names held as segments
StrIncludes(name, part) ==
  \E i \in 0..(Len(name) - Len(part)) : SubSeq(name, i + 1, i + Len(part)) = part

\* Array.prototype.join('_'): the segments of the joined names, in order
RECURSIVE JoinNames(_)
JoinNames(names) ==
  IF Len(names) = 0 THEN <<>> ELSE Head(names) \o JoinNames(Tail(names))

-----------------------------------------------------------------------------
(* Tokens of the emitted text *)

Punct(s) == <<[t |-> "p", v |-> <<s>>]>>

Name(n) == <<[t |-> "n", v |-> n]>>

\* ${value}: the value's string form, unquoted
Raw(v) == <<[t |-> "raw", v |-> <<v>>]>>

\* "${value}": the value's string form between double quotes
Quoted(v) == <<[t |-> "str", v |-> <<v>>]>>

-----------------------------------------------------------------------------
(* Introspection data: IntrospectionTypeRef, IntrospectionField,           *)
(* IntrospectionType.  An absent (null or undefined) member is the empty   *)
(* sequence, a present one a sequence of length one.                       *)

\* a named type reference {kind, name}
Ref(kind, name) == [kind |-> kind, name |-> name, ofType |-> <<>>]

\* {kind: "NON_NULL", ofType: t} and {kind: "LIST", ofType: t}
NonNull(t) == [kind |-> "NON_NULL", name |-> <<>>, ofType |-> <<t>>]

ListOf(t) == [kind |-> "LIST", name |-> <<>>, ofType |-> <<t>>]

None == <<>>

Some(x) == <<x>>

\* a field, an input field or an argument as introspection gives it; once
\* extractFieldsDependencies has replaced an object-typed field by the object
\* itself the entry has a kind, fields and a path, and no type
Field(name, type, args) ==
  [name |-> name, kind |-> "", type |-> Some(type), args |-> args,
   fields |-> None, path |-> <<>>]

\* a member of __schema.types; fields and inputFields are null or a list
Type(kind, name, fields, inputFields) ==
  [kind |-> kind, name |-> name, fields |-> fields, inputFields |-> inputFields]

StringT == Ref("SCALAR", <<"String">>)

IntT == Ref("SCALAR", <<"Int">>)

BooleanT == Ref("SCALAR", <<"Boolean">>)

IDT == Ref("SCALAR", <<"ID">>)

OpFilter(scalar) == <<scalar, "OperationFilterInput">>

\* The introspection result the gateway is run against: the schema of the
\* spec's scenarios 4 and 5 (users(where: UserFilter) with operational filters),
\* extended by scalar arguments, first-level scalar filters, a nested filter
\* input two levels deep, a filter input of scalar fields only and a
\* self-referential object type.
Types == <<
  Type("OBJECT", <<"Query">>,
    Some(<< Field(<<"users">>, NonNull(ListOf(NonNull(Ref("OBJECT", <<"User">>)))),
              << Field(<<"where">>, Ref("INPUT_OBJECT", <<"UserFilter">>), <<>>),
                 Field(<<"first">>, IntT, <<>>),
                 Field(<<"after">>, StringT, <<>>),
                 Field(<<"desc">>, BooleanT, <<>>) >>),
            Field(<<"delete", "User">>, Ref("OBJECT", <<"Profile">>),
              << Field(<<"where">>, Ref("INPUT_OBJECT", <<"AddressFilter">>), <<>>) >>),
            Field(<<"get", "Profile">>, Ref("OBJECT", <<"Profile">>),
              << Field(<<"where">>, Ref("INPUT_OBJECT", <<"ProfileFilter">>), <<>>) >>) >>),
    None),
  Type("OBJECT", <<"User">>,
    Some(<< Field(<<"id">>, NonNull(IDT), <<>>),
            Field(<<"name">>, StringT, <<>>),
            Field(<<"profile">>, Ref("OBJECT", <<"Profile">>), <<>>),
            Field(<<"friends">>, ListOf(Ref("OBJECT", <<"User">>)), <<>>) >>),
    None),
  Type("OBJECT", <<"Profile">>,
    Some(<< Field(<<"bio">>, StringT, <<>>),
            Field(<<"parent", "Profile">>, Ref("OBJECT", <<"Profile">>), <<>>) >>),
    None),
  Type("INPUT_OBJECT", <<"UserFilter">>, None,
    Some(<< Field(<<"and">>, ListOf(NonNull(Ref("INPUT_OBJECT", <<"UserFilter">>))), <<>>),
            Field(<<"name">>, Ref("INPUT_OBJECT", OpFilter("String")), <<>>),
            Field(<<"age">>, Ref("INPUT_OBJECT", OpFilter("Int")), <<>>),
            Field(<<"active">>, Ref("INPUT_OBJECT", OpFilter("Boolean")), <<>>),
            Field(<<"nick">>, StringT, <<>>),
            Field(<<"level">>, IntT, <<>>),
            Field(<<"owner">>, Ref("INPUT_OBJECT", <<"OwnerFilter">>), <<>>) >>)),
  Type("INPUT_OBJECT", <<"OwnerFilter">>, None,
    Some(<< Field(<<"name">>, Ref("INPUT_OBJECT", OpFilter("String")), <<>>),
            Field(<<"address">>, Ref("INPUT_OBJECT", <<"AddressFilter">>), <<>>),
            Field(<<"rank">>, IntT, <<>>) >>)),
  Type("INPUT_OBJECT", <<"AddressFilter">>, None,
    Some(<< Field(<<"city">>, Ref("INPUT_OBJECT", OpFilter("String")), <<>>),
            Field(<<"zip">>, Ref("INPUT_OBJECT", OpFilter("String")), <<>>) >>)),
  Type("INPUT_OBJECT", <<"ProfileFilter">>, None,
    Some(<< Field(<<"bio">>, StringT, <<>>),
            Field(<<"public">>, BooleanT, <<>>) >>)),
  Type("INPUT_OBJECT", OpFilter("String"), None,
    Some(<< Field(<<"eq">>, StringT, <<>>),
            Field(<<"neq">>, StringT, <<>>) >>)),
  Type("INPUT_OBJECT", OpFilter("Int"), None,
    Some(<< Field(<<"eq">>, IntT, <<>>),
            Field(<<"gt">>, IntT, <<>>) >>)),
  Type("INPUT_OBJECT", OpFilter("Boolean"), None,
    Some(<< Field(<<"eq">>, BooleanT, <<>>) >>)),
  Type("SCALAR", <<"String">>, None, None),
  Type("SCALAR", <<"Int">>, None, None),
  Type("SCALAR", <<"Boolean">>, None, None),
  Type("SCALAR", <<"ID">>, None, None)
>>

\* __schema.queryType.name
QueryTypeName == <<"Query">>

\* config.pathDepth (PATH_DEPTH)
PathDepth == 3

-----------------------------------------------------------------------------
(* The GraphQL compiler: class Graph, constructor and traversals *)

isNonNullField(field) == field.type # None /\ field.type[1].kind = "NON_NULL"

isListField(field) == field.type # None /\ field.type[1].kind = "LIST"

isScalarField(field) == field.type # None /\ field.type[1].kind = "SCALAR"

\* kind.includes("OBJECT"): the kinds OBJECT and INPUT_OBJECT
isObjectField(field) ==
  field.type # None /\ field.type[1].kind \in {"OBJECT", "INPUT_OBJECT"}

\* the loop of getFieldType: descend ofType while there is one (its other
\* conjunct, not scalar or not object, holds of every type)
RECURSIVE UnwrapType(_)
UnwrapType(type) ==
  IF (~isScalarField([type |-> Some(type)]) \/ ~isObjectField([type |-> Some(type)]))
     /\ type.ofType # None
  THEN UnwrapType(type.ofType[1])
  ELSE type

getFieldType(field) ==
  IF field.type = None THEN [kind |-> "SCALAR", name |-> <<>>, ofType |-> None]
  ELSE UnwrapType(field.type[1])

\* this.types.filter(name and kind match).shift(): the first match or undefined
getInternalObject(types, name, kind) ==
  LET hits == SelectSeq(types, LAMBDA ty : ty.name = name /\ ty.kind = kind)
  IN  IF Len(hits) = 0 THEN None ELSE Some(Head(hits))

RECURSIVE extractObject(_, _)
extractObject(types, obj) ==
  IF obj.kind \in {"NON_NULL", "LIST"} /\ obj.ofType # None
  THEN extractObject(types, obj.ofType[1])
  ELSE getInternalObject(types, obj.name, obj.kind)

\* the field-name test !node.name.includes('parent')
IsParentField(node) == StrIncludes(node.name, <<"parent">>)

\* extractFieldsDependencies: the fields list of nodes after the traversal
\* (the code rewrites nodes.fields in place); i is the loop index
RECURSIVE extractFieldsDependencies(_, _, _, _, _)
extractFieldsDependencies(types, fields, path, depth, i) ==
  IF i > Len(fields) THEN fields
  ELSE
    LET node0 == fields[i]
        node == IF isNonNullField(node0) \/ isListField(node0)
                THEN [node0 EXCEPT !.type = Some(getFieldType(node0))]
                ELSE node0
        nodeObj == IF isObjectField(node) THEN extractObject(types, node.type[1]) ELSE None
        entry ==
          IF nodeObj = None THEN node
          ELSE
            LET obj == nodeObj[1]
                descend == /\ obj.fields # None
                           /\ ~IsParentField(node)
                           /\ obj.name \notin Range(path)
                           /\ depth > 0
                sub == IF descend
                       THEN Some(extractFieldsDependencies(types,
                                   obj.fields[1], Append(path, obj.name), depth - 1, 1))
                       ELSE obj.fields
            IN  [name |-> node.name, kind |-> obj.kind, type |-> None,
                 args |-> <<>>, fields |-> sub, path |-> path]
    IN  extractFieldsDependencies(types, [fields EXCEPT ![i] = entry], path, depth, i + 1)

Connectors == {<<"or">>, <<"and">>, <<"any">>}

\* an entry of mcpParams pushed by extractFilterDependencies
McpParam(name, type, path, fieldsPath) ==
  [name |-> name, type |-> Some(type), path |-> Some(path),
   fieldsPath |-> Some(fieldsPath)]

\* an entry of mcpParams that is a root-field argument (no path, no fieldsPath)
ArgParam(arg) ==
  [name |-> arg.name, type |-> arg.type, path |-> None, fieldsPath |-> None]

\* the flat name of a leaf: lines 189-206.  (The loop of lines 192-197 only
\* reads field names, none of which contains OperationFilterInput.)
FlatName(node, fields, filter) ==
  IF StrIncludes(node.name, <<"OperationFilterInput">>) /\ Len(fields) > 0
  THEN JoinNames(fields)
  ELSE IF Len(fields) > 0 THEN JoinNames(fields) \o filter.name
  ELSE filter.name

\* extractFilterDependencies: mcpParams after the traversal of node's input
\* fields from index i on
RECURSIVE extractFilterDependencies(_, _, _, _, _, _, _)
extractFilterDependencies(types, node, path, fields, depth, mcpParams, i) ==
  IF node.inputFields = None \/ i > Len(node.inputFields[1]) THEN mcpParams
  ELSE
    LET filter == node.inputFields[1][i]
        named == filter.name \notin Connectors
        filterObj == IF named /\ filter.type # None /\ filter.type[1].kind = "INPUT_OBJECT"
                     THEN extractObject(types, filter.type[1]) ELSE None
        afterNested ==
          IF filterObj # None
             /\ filterObj[1].inputFields # None
             /\ filterObj[1].name \notin Range(path)
             /\ depth > 0
          THEN extractFilterDependencies(types, filterObj[1], Append(path, filterObj[1].name),
                                         Append(fields, filter.name), depth - 1,
                                         mcpParams, 1)
          ELSE mcpParams
        leaf == named /\ (isNonNullField(filter) \/ isListField(filter)
                          \/ isScalarField(filter))
        name == FlatName(node, fields, filter)
        afterLeaf ==
          IF leaf /\ Len(SelectSeq(afterNested, LAMBDA param : param.name = name)) = 0
          THEN Append(afterNested, McpParam(name, getFieldType(filter), path, fields))
          ELSE afterNested
    IN  extractFilterDependencies(types, node, path, fields, depth, afterLeaf, i + 1)

\* the loop over a root field's arguments (lines 86-103): the pair
\* <<mcpParams, pagination>> after the arguments from index i on
RECURSIVE CompileArgs(_, _, _, _, _)
CompileArgs(types, args, mcpParams, pagination, i) ==
  IF i > Len(args) THEN <<mcpParams, pagination>>
  ELSE
    LET arg == args[i]
    IN  IF arg.name = <<"where">>
        THEN LET filterObj == extractObject(types, arg.type[1])
             IN  CompileArgs(types, args,
                   IF filterObj # None
                   THEN extractFilterDependencies(types, filterObj[1], <<filterObj[1].name>>,
                                                  <<>>, PathDepth, mcpParams, 1)
                   ELSE mcpParams,
                   pagination, i + 1)
        ELSE IF isScalarField(arg)
        THEN CompileArgs(types, args, <<ArgParam(arg)>> \o mcpParams,
                         Append(pagination, ArgParam(arg)), i + 1)
        ELSE CompileArgs(types, args, mcpParams, pagination, i + 1)

\* the constructor's loop over the query type's fields: graph.query
RECURSIVE CompileQuery(_, _, _)
CompileQuery(types, objs, i) ==
  IF i > Len(objs) THEN <<>>
  ELSE
    LET obj == objs[i]
        nodes == extractObject(types, obj.type[1])
    IN  IF nodes = None THEN CompileQuery(types, objs, i + 1)
        ELSE
          LET fields == IF nodes[1].fields = None THEN None
                        ELSE Some(extractFieldsDependencies(types,
                                    nodes[1].fields[1], <<nodes[1].name>>, PathDepth, 1))
              compiled == CompileArgs(types, obj.args, <<>>, <<>>, 1)
          IN  << [name |-> obj.name, kind |-> nodes[1].kind, fields |-> fields,
                  pagination |-> compiled[2], mcpParams |-> compiled[1]] >>
              \o CompileQuery(types, objs, i + 1)

\* new Graph(data).graph.query for the introspection result whose types are
\* given
NewGraph(types) ==
  LET query == getInternalObject(types, QueryTypeName, "OBJECT")
  IN  IF query = None \/ query[1].fields = None THEN <<>>
      ELSE CompileQuery(types, query[1].fields[1], 1)

\* the graph of the schema above
GraphQuery == NewGraph(Types)

-----------------------------------------------------------------------------
(* The query builder: normalizeWhere, buildWhereGraph, selectionForType,   *)
(* buildQueryForRoot.  A filters object is the sequence of its entries     *)
(* [k, v] in insertion order; a value is held by its string form, which is *)
(* all the builder reads of it.                                            *)

Keys(filters) == [i \in 1..Len(filters) |-> filters[i].k]

HasKey(filters, key) == \E i \in 1..Len(filters) : filters[i].k = key

\* filters[key]: the value, or undefined
Get(filters, key) ==
  IF HasKey(filters, key)
  THEN filters[CHOOSE i \in 1..Len(filters) : filters[i].k = key].v
  ELSE "undefined"

\* delete filters[key]
Delete(filters, key) == SelectSeq(filters, LAMBDA e : e.k # key)

\* where = `{ ${filter}: ${where} }` for the members of fieldsPath, last first
RECURSIVE WrapPath(_, _)
WrapPath(fieldsPath, where) ==
  IF Len(fieldsPath) = 0 THEN where
  ELSE WrapPath(SubSeq(fieldsPath, 1, Len(fieldsPath) - 1),
                Punct("{") \o Name(Last(fieldsPath)) \o Punct(":") \o where \o Punct("}"))

normalizeWhere(param, value) ==
  LET lastIsOp == /\ param.path # None
                  /\ Len(param.path[1]) > 0
                  /\ StrIncludes(Last(param.path[1]), <<"OperationFilterInput">>)
      eq == IF ~lastIsOp THEN <<>>
            ELSE IF StrIncludes(Last(param.path[1]), <<"Boolean">>)
            THEN Punct("{") \o Name(<<"eq">>) \o Punct(":") \o Raw(value) \o Punct("}")
            ELSE Punct("{") \o Name(<<"eq">>) \o Punct(":") \o Quoted(value) \o Punct("}")
      wrapped == IF param.fieldsPath # None THEN WrapPath(param.fieldsPath[1], eq) ELSE eq
  IN  IF Len(wrapped) < 1 /\ isScalarField(param)
      THEN IF param.type[1].name = <<"String">>
           THEN Punct("{") \o Name(param.name) \o Punct(":") \o Quoted(value) \o Punct("}")
           ELSE Punct("{") \o Name(param.name) \o Punct(":") \o Raw(value) \o Punct("}")
      ELSE wrapped

\* a.length > 0 ? `${a}, ${b}` : b
JoinComma(a, b) == IF Len(a) > 0 THEN a \o Punct(",") \o b ELSE b

\* lines 270-276: the first-level filter string over filteredParams from i on
RECURSIVE FirstLevel(_, _, _, _)
FirstLevel(filteredParams, filters, acc, i) ==
  IF i > Len(filteredParams) THEN acc
  ELSE
    LET param == filteredParams[i]
    IN  IF param.fieldsPath # None /\ Len(param.fieldsPath[1]) = 0
        THEN FirstLevel(filteredParams, filters,
               JoinComma(acc, Slice1(normalizeWhere(param, Get(filters, param.name)))),
               i + 1)
        ELSE FirstLevel(filteredParams, filters, acc, i + 1)

\* lines 296-301: the Set of fieldsPath[idx] over the params, in insertion order
RECURSIVE LevelKeys(_, _, _, _)
LevelKeys(filteredParams, idx, acc, i) ==
  IF i > Len(filteredParams) THEN acc
  ELSE
    LET param == filteredParams[i]
        skip == \/ param.fieldsPath = None
                \/ Len(param.fieldsPath[1]) <= idx
                \/ param.fieldsPath[1][idx + 1] \in Range(acc)
    IN  LevelKeys(filteredParams, idx,
                  IF skip THEN acc ELSE Append(acc, param.fieldsPath[1][idx + 1]), i + 1)

\* the first key of filters that the name includes, or none (line 283)
FirstIncludedKey(filters, name) ==
  LET hits == SelectSeq(Keys(filters), LAMBDA paramName : StrIncludes(name, paramName))
  IN  IF Len(hits) = 0 THEN None ELSE Some(Head(hits))

RECURSIVE buildWhereGraph(_, _, _)
RECURSIVE WhereGroups(_, _, _, _, _, _)
RECURSIVE WhereLevels(_, _, _, _)

\* lines 305-315: whereString after the groups of the keys from i on
WhereGroups(filteredParams, filters, idx, keys, whereString, i) ==
  IF i > Len(keys) THEN whereString
  ELSE
    LET item == keys[i]
        paramsCopy == SelectSeq(filteredParams, LAMBDA param :
                        /\ param.fieldsPath # None
                        /\ idx < Len(param.fieldsPath[1])
                        /\ param.fieldsPath[1][idx + 1] = item)
        filterStr == Slice1(buildWhereGraph(paramsCopy, filters, idx))
    IN  WhereGroups(filteredParams, filters, idx, keys,
                    JoinComma(whereString, filterStr), i + 1)

\* lines 294-324: the body of while (true) at level idx
WhereLevels(filteredParams, filters, firstLevelFilterString, idx) ==
  LET keys == LevelKeys(filteredParams, idx, <<>>, 1)
  IN  IF Len(keys) = 1
      THEN WhereLevels(filteredParams, filters, firstLevelFilterString, idx + 1)
      ELSE
        LET groups == IF Len(keys) > 1
                      THEN WhereGroups(filteredParams, filters, idx, keys, <<>>, 1)
                      ELSE <<>>
            first == filteredParams[1].fieldsPath[1]
            commonPath == SubSeq(first, 1, IF idx < Len(first) THEN idx ELSE Len(first))
            whereString == WrapPath(commonPath, Punct("{") \o groups \o Punct("}"))
        IN  IF Len(firstLevelFilterString) > 0
            THEN Punct("{") \o firstLevelFilterString \o Punct(",")
                 \o Slice1(whereString) \o Punct("}")
            ELSE whereString

buildWhereGraph(params, filters, pointer) ==
  LET selected == IF Len(params) > Len(filters)
                  THEN SelectSeq(params, LAMBDA param : HasKey(filters, param.name))
                  ELSE params
      firstLevelFilterString == FirstLevel(selected, filters, <<>>, 1)
      filteredParams == SelectSeq(selected, LAMBDA param :
                          param.fieldsPath # None /\ Len(param.fieldsPath[1]) > 0)
  IN  IF Len(selected) = 0 THEN <<>>
      ELSE IF Len(filteredParams) = 0
      THEN Punct("{") \o firstLevelFilterString \o Punct("}")
      ELSE IF Len(filteredParams) = 1
      THEN
        LET key == FirstIncludedKey(filters, filteredParams[1].name)
            param == filteredParams[1]
            sliced == [param EXCEPT
                         !.fieldsPath = Some(SliceFrom(param.fieldsPath[1], pointer)),
                         !.path = IF param.path = None THEN None
                                  ELSE Some(SliceFrom(param.path[1], pointer))]
        IN  IF key = None THEN <<>>
            ELSE
              LET filterStr == normalizeWhere(sliced, Get(filters, key[1]))
              IN  IF Len(firstLevelFilterString) > 0
                  THEN Punct("{") \o firstLevelFilterString \o Punct(",")
                       \o Slice1(filterStr) \o Punct("}")
                  ELSE filterStr
      ELSE WhereLevels(filteredParams, filters, firstLevelFilterString, 0)

\* selectionForType: the selection text of obj's fields from index i on,
\* parts joined by white space
RECURSIVE SelectionParts(_, _)
SelectionParts(fields, i) ==
  IF i > Len(fields) THEN <<>>
  ELSE
    LET field0 == fields[i]
        field == IF isNonNullField(field0) \/ isListField(field0)
                 THEN [field0 EXCEPT !.type = Some(getFieldType(field0))]
                 ELSE field0
        part ==
          IF isScalarField(field) THEN Name(field.name)
          ELSE IF field.fields # None
          THEN LET obj == IF field.name = <<"edges">>
                          THEN SelectSeq(field.fields[1], isScalarField)
                          ELSE field.fields[1]
                   subParts == SelectionParts(obj, 1)
               IN  IF Len(subParts) > 0
                   THEN Name(field.name) \o Punct("{") \o subParts \o Punct("}")
                   ELSE <<>>
          ELSE <<>>
    IN  part \o SelectionParts(fields, i + 1)

selectionForType(obj) ==
  IF obj.fields = None THEN <<>>
  ELSE SelectionParts(IF obj.name = <<"edges">>
                      THEN SelectSeq(obj.fields[1], isScalarField)
                      ELSE obj.fields[1], 1)

\* what selectionForType leaves in the fields it walks, from index i on: a
\* NON_NULL or LIST field has its type replaced by the unwrapped one (line
\* 368), and the fields of an object called edges are cut down to the scalar
\* ones (line 363)
RECURSIVE SelectionWrites(_, _)
SelectionWrites(fields, i) ==
  IF i > Len(fields) THEN <<>>
  ELSE
    LET field0 == fields[i]
        field == IF isNonNullField(field0) \/ isListField(field0)
                 THEN [field0 EXCEPT !.type = Some(getFieldType(field0))]
                 ELSE field0
        after ==
          IF ~isScalarField(field) /\ field.fields # None
          THEN [field EXCEPT !.fields =
                  Some(SelectionWrites(IF field.name = <<"edges">>
                                       THEN SelectSeq(field.fields[1], isScalarField)
                                       ELSE field.fields[1], 1))]
          ELSE field
    IN  <<after>> \o SelectionWrites(fields, i + 1)

\* the descriptor obj after selectionForType(obj)
AfterSelection(obj) ==
  IF obj.fields = None THEN obj
  ELSE [obj EXCEPT !.fields =
          Some(SelectionWrites(IF obj.name = <<"edges">>
                               THEN SelectSeq(obj.fields[1], isScalarField)
                               ELSE obj.fields[1], 1))]

\* parseInt of a value's string form
ParseInt(v) == IF v \in {"30", "7"} THEN v ELSE "NaN"

\* lines 394-408: <<pagination text, filters>> after the keys from index i on of
\* the filters object as it was when the loop began
RECURSIVE Pagination(_, _, _, _, _)
Pagination(itemObject, keys, filters, pagination, i) ==
  IF i > Len(keys) THEN <<pagination, filters>>
  ELSE
    LET key == keys[i]
        pageItems == IF itemObject = None THEN <<>>
                     ELSE SelectSeq(itemObject[1].pagination, LAMBDA page : page.name = key)
    IN  IF Len(pageItems) > 0
        THEN LET typeName == pageItems[1].type[1].name
                 text == IF typeName = <<"Int">>
                         THEN Name(key) \o Punct(":") \o Raw(ParseInt(Get(filters, key)))
                         ELSE IF typeName = <<"String">>
                         THEN Name(key) \o Punct(":") \o Quoted(Get(filters, key))
                         ELSE <<>>
             IN  Pagination(itemObject, keys, Delete(filters, key), pagination \o text, i + 1)
        ELSE Pagination(itemObject, keys, filters, pagination, i + 1)

\* buildQueryForRoot: the parts of the query and its whole text
buildQueryForRoot(graph, rootFieldName, mcpParams, filters) ==
  LET hits == SelectSeq(graph, LAMBDA item : item.name = rootFieldName)
      itemObject == IF Len(hits) = 0 THEN None ELSE Some(Head(hits))
      selections == IF itemObject = None THEN <<>> ELSE selectionForType(itemObject[1])
      paged == Pagination(itemObject, Keys(filters), filters, <<>>, 1)
      literal == buildWhereGraph(mcpParams, paged[2], 0)
      where == IF Len(literal) > 0 THEN Name(<<"where">>) \o Punct(":") \o literal
               ELSE <<>>
  IN  [literal |-> literal,
       args |-> where \o paged[1],
       selections |-> selections,
       text |-> Name(<<"query">>) \o Name(<<"Get">> \o rootFieldName) \o Punct("{")
                \o Name(rootFieldName) \o Punct("(") \o where \o paged[1] \o Punct(")")
                \o Punct("{") \o selections \o Punct("}") \o Punct("}")]

\* graph.query after buildQueryForRoot: the first root field of that name is
\* the object selectionForType is given, lines 388-392
AfterBuildQuery(graph, rootFieldName) ==
  [i \in 1..Len(graph) |->
     IF graph[i].name = rootFieldName
        /\ \A j \in 1..(i - 1) : graph[j].name # rootFieldName
     THEN AfterSelection(graph[i])
     ELSE graph[i]]

-----------------------------------------------------------------------------
(* The gateway: request headers and configuration.  A header object is the *)
(* sequence of its entries [k, v] in insertion order, like a filters       *)
(* object.                                                                 *)

Header(k, v) == [k |-> k, v |-> v]

\* {...a, ...b}: a's keys in a's order with b's values where b has the key,
\* then b's other keys
Spread(a, b) ==
  [i \in 1..Len(a) |-> IF HasKey(b, a[i].k) THEN Header(a[i].k, Get(b, a[i].k)) ELSE a[i]]
  \o SelectSeq(b, LAMBDA e : ~HasKey(a, e.k))

\* Array.prototype.includes
Includes(list, item) == \E i \in 1..Len(list) : list[i] = item

\* header names as Node gives them (lower case), and the one the code writes
Authorization == <<"auth", "orization">>

XApiKey == <<"x-", "api", "-", "key">>

Cookie == <<"cookie">>

Accept == <<"accept">>

ContentType == <<"Content-Type">>

\* key.includes('auth') || key.includes('key') || key.includes('api') ||
\* key.includes('cookie')
IsPropagated(key) ==
  \/ StrIncludes(key, <<"auth">>)
  \/ StrIncludes(key, <<"key">>)
  \/ StrIncludes(key, <<"api">>)
  \/ StrIncludes(key, <<"cookie">>)

\* the filter and reduce over Object.keys(req.headers)
CaptureHeaders(headers) == SelectSeq(headers, LAMBDA h : IsPropagated(h.k))

\* the headers an inbound GET /mcp carries
InboundHeaders ==
  { <<Header(Authorization, "Bearer-U"), Header(Accept, "json")>>,
    <<Header(XApiKey, "U-key"), Header(Cookie, "sid")>> }

Config(type, apiKey, customHeaders, whitelist, blacklist) ==
  [type |-> type, transport |-> "sse", apiKey |-> apiKey,
   customHeaders |-> customHeaders, whitelist |-> whitelist,
   blacklist |-> blacklist, presetParams |-> <<>>]

\* the configurations the gateway is started with: config.type, the credential
\* (config.securityCredentials?.[config.securitySchemeName] || config.apiKey),
\* config.customHeaders, config.filter.whitelist (null or a list) and
\* config.filter.blacklist
Configs ==
  { Config("graphql", None, <<>>, None, <<>>),
    Config("graphql", Some("K"), <<Header(XApiKey, "C-key")>>, None,
           << <<"users", ".", "name">> >>),
    Config("graphql", None, <<>>,
           Some(<< <<"users">>, <<"delete", "User">>, <<"users", ".", "name">> >>),
           << <<"delete", "User">> >>),
    Config("graphql", None, <<>>, None, << <<"delete", "*">> >>),
    Config("graphql", None, <<>>, Some(<< <<"get", "*">> >>), <<>>),
    Config("openapi", Some("K"), <<Header(XApiKey, "C-key")>>, None,
           << <<"delete", "*">> >>),
    Config("openapi", None, <<>>, Some(<< <<"get", "*">> >>), << <<"get", "Pet">> >>) }

\* getGraphQLServer lines 255-268: the session's header object
GraphQLInputHeader(config, headers) ==
  LET captured == CaptureHeaders(headers)
      withKey == IF config.apiKey # None
                 THEN Spread(captured, <<Header(Authorization, config.apiKey[1])>>)
                 ELSE captured
  IN  IF Len(config.customHeaders) > 0 THEN Spread(withKey, config.customHeaders)
      ELSE withKey

\* introspectEndpoint lines 17-20: the headers of the introspection request
IntrospectionHeaders(headers) ==
  Spread(<<Header(ContentType, "application/json")>>, headers)

\* requestData line 431: header['Content-Type'] = 'application/json', written
\* into the session's header object
RequestHeaders(header) ==
  Spread(header, <<Header(ContentType, "application/json")>>)

\* executeApiCall's headers: the configured static headers and credential,
\* with the header parameters taken from the inputs layered on top
ExecuteApiCallHeaders(config, mcpInputs) ==
  LET auth == IF config.apiKey # None
              THEN <<Header(Authorization, config.apiKey[1])>> ELSE <<>>
  IN  Spread(Spread(config.customHeaders, auth), mcpInputs)

-----------------------------------------------------------------------------
(* The gateway: tool registration *)

\* an introspection result that lists the root field getProfile twice
TypesDup ==
  [Types EXCEPT ![1].fields =
     Some(Types[1].fields[1]
          \o << Field(<<"get", "Profile">>, Ref("OBJECT", <<"User">>), <<>>) >>)]

\* new Graph(data) for the introspection results the upstream may answer with
Graphs == <<GraphQuery, NewGraph(TypesDup)>>

\* `${tool.name}.${param.name}`
Qualified(toolName, paramName) == toolName \o <<".">> \o paramName

\* the keys of an object the names are assigned to in turn
RECURSIVE ObjectKeys(_)
ObjectKeys(names) ==
  IF Len(names) = 0 THEN <<>>
  ELSE LET front == ObjectKeys(SubSeq(names, 1, Len(names) - 1))
       IN  IF Includes(front, Last(names)) THEN front ELSE Append(front, Last(names))

\* lines 286-298: the parameter names of the tool's input schema
ToolParams(config, tool) ==
  LET kept(param) ==
        /\ ~Includes(config.blacklist, Qualified(tool.name, param.name))
        /\ \/ config.whitelist = None
           \/ LET filtersList == SelectSeq(config.whitelist[1],
                                   LAMBDA item : StrIncludes(item, <<".">>))
              IN  ~(Len(filtersList) > 0
                    /\ ~Includes(filtersList, Qualified(tool.name, param.name)))
        /\ ~Includes(Keys(config.presetParams), param.name)
      params == SelectSeq(tool.mcpParams, kept)
  IN  ObjectKeys([i \in 1..Len(params) |-> params[i].name])

\* a tool as the session's McpServer holds it; op is the place of its root
\* field or operation in discovery order.  params are the keys of the zod
\* shape, required those parseSchema left non-optional, parameters the
\* handler's apiCallDetails.parameters (OpenAPI only).
RegisteredTool(name, params, required, op, parameters) ==
  [name |-> name, params |-> params, required |-> required, op |-> op,
   parameters |-> parameters]

\* a GraphQL tool: parseSchema is called with required = false, line 297
Tool(name, params, op) == RegisteredTool(name, params, <<>>, op, <<>>)

IsRegistered(registered, name) == \E j \in 1..Len(registered) : registered[j].name = name

\* getGraphQLServer's registration loop, lines 281-354, from index i on;
\* McpServer.tool throws when the name is already registered, which ends
\* getGraphQLServer
RECURSIVE RegisterGraphQLTools(_, _, _, _)
RegisterGraphQLTools(config, graph, i, registered) ==
  IF i > Len(graph) THEN [threw |-> FALSE, tools |-> registered]
  ELSE
    LET tool == graph[i]
    IN  IF Includes(config.blacklist, tool.name)
        THEN RegisterGraphQLTools(config, graph, i + 1, registered)
        ELSE IF config.whitelist # None /\ ~Includes(config.whitelist[1], tool.name)
        THEN RegisterGraphQLTools(config, graph, i + 1, registered)
        ELSE IF IsRegistered(registered, tool.name)
        THEN [threw |-> TRUE, tools |-> registered]
        ELSE RegisterGraphQLTools(config, graph, i + 1,
               Append(registered, Tool(tool.name, ToolParams(config, tool), i)))

\* a parameter of an operation and whether the document marks it required
Parameter(name, required) == [name |-> name, required |-> required]

\* an object schema as far as registration reads it: the names of its
\* properties and its required list
ObjectSchema(properties, required) == [properties |-> properties, required |-> required]

\* an operation of the processed OpenAPI document; requestBody is the object
\* schema of its JSON body, if it has one
Operation(operationId, xMcpName, parameters, requestBody) ==
  [operationId |-> operationId, xMcpName |-> xMcpName, parameters |-> parameters,
   requestBody |-> requestBody]

\* the processed OpenAPI documents getProcessedOpenApi may return: the pet
\* store of the spec's scenarios 1 and 2, and one whose overlay gives two
\* operations the same x-mcp name and whose search takes a JSON body
OpenApiSpecs ==
  << << Operation(<<"get", "Pet">>, None, <<Parameter(<<"id">>, TRUE)>>, None),
        Operation(<<"list", "Pets">>, Some(<<"pets_list">>), <<>>, None),
        Operation(<<"delete", "Pet">>, None, <<Parameter(<<"id">>, TRUE)>>, None) >>,
     << Operation(<<"list", "Pets">>, Some(<<"pets">>), <<>>, None),
        Operation(<<"search", "Pets">>, Some(<<"pets">>), <<Parameter(<<"q">>, FALSE)>>,
                  Some(ObjectSchema(<< <<"tag">>, <<"status">> >>, << <<"tag">> >>))),
        Operation(<<"get", "Pet">>, None, <<Parameter(<<"id">>, TRUE)>>, None) >> >>

RequestBody == <<"requestBody">>

\* a property of a tool's input schema with, for an object, its schema
Property(name, schema) == [name |-> name, schema |-> schema]

\* mcpToolDefinition.inputSchema: the parameters at top level with their
\* required flags, and the body as the property requestBody
InputSchema(op) ==
  LET required == SelectSeq(op.parameters, LAMBDA q : q.required)
  IN  [properties |->
         [i \in 1..Len(op.parameters) |->
            Property(op.parameters[i].name, ObjectSchema(<<>>, <<>>))]
         \o (IF op.requestBody = None THEN <<>>
             ELSE <<Property(RequestBody, op.requestBody[1])>>),
       required |->
         [i \in 1..Len(required) |-> required[i].name]
         \o (IF op.requestBody = None \/ Len(op.requestBody[1].required) = 0
             THEN <<>> ELSE <<RequestBody>>)]

\* a tool as the mapper hands it to registration
MappedTool(name, inputSchema, op, parameters) ==
  [name |-> name, inputSchema |-> inputSchema, op |-> op, parameters |-> parameters]

\* a glob over an operationId: * stands for any run of characters
RECURSIVE GlobMatch(_, _)
GlobMatch(pattern, name) ==
  IF Len(pattern) = 0 THEN Len(name) = 0
  ELSE IF Head(pattern) = "*"
  THEN GlobMatch(Tail(pattern), name)
       \/ (Len(name) > 0 /\ GlobMatch(pattern, Tail(name)))
  ELSE Len(name) > 0 /\ Head(name) = Head(pattern)
       /\ GlobMatch(Tail(pattern), Tail(name))

MatchesAny(patterns, name) ==
  \E i \in 1..Len(patterns) : GlobMatch(patterns[i], name)

\* the mapper's filter: a non-empty whitelist restricts to its matches, the
\* blacklist is consulted only when the whitelist is empty
IsRetained(config, op) ==
  IF config.whitelist # None /\ Len(config.whitelist[1]) > 0
  THEN MatchesAny(config.whitelist[1], op.operationId)
  ELSE ~MatchesAny(config.blacklist, op.operationId)

\* the mapper's tool name: xMcp.name, else operationId
BaseName(op) == IF op.xMcpName # None THEN op.xMcpName[1] ELSE op.operationId

Suffixes == <<"_2", "_3", "_4">>

\* mapOpenApiToMcpTools from operation i on: a colliding name gets the suffix
\* _2, _3, ... in discovery order
RECURSIVE mapOpenApiToMcpTools(_, _, _, _)
mapOpenApiToMcpTools(config, ops, i, mapped) ==
  IF i > Len(ops) THEN mapped
  ELSE IF ~IsRetained(config, ops[i])
  THEN mapOpenApiToMcpTools(config, ops, i + 1, mapped)
  ELSE
    LET base == BaseName(ops[i])
        earlier == Len(SelectSeq(mapped, LAMBDA m : BaseName(ops[m.op]) = base))
        name == IF earlier = 0 THEN base ELSE Append(base, Suffixes[earlier])
    IN  mapOpenApiToMcpTools(config, ops, i + 1,
          Append(mapped,
            MappedTool(name, InputSchema(ops[i]), i,
              [k \in 1..Len(ops[i].parameters) |-> ops[i].parameters[k].name])))

\* parseSchema, lines 71-106, as far as the zod shape's keys and their
\* optionality go: params[propName] is assigned, optional unless required
parseSchema(propName, required, params) ==
  IF \E k \in 1..Len(params) : params[k].name = propName
  THEN [k \in 1..Len(params) |->
          IF params[k].name = propName THEN Parameter(propName, required)
          ELSE params[k]]
  ELSE Append(params, Parameter(propName, required))

\* lines 172-177: the body's properties from index i on.  The required list
\* of the body schema is asked for propName, which is requestBody here.
RECURSIVE HoistRequestBody(_, _, _, _)
HoistRequestBody(propName, propSchema, params, i) ==
  IF i > Len(propSchema.properties) THEN params
  ELSE LET bodyPropName == propSchema.properties[i]
           requiredBodyProp == Includes(propSchema.required, propName)
       IN  HoistRequestBody(propName, propSchema,
             parseSchema(bodyPropName, requiredBodyProp, params), i + 1)

\* lines 164-181: the zod shape of a tool from its input schema, from
\* property i on
RECURSIVE ZodParams(_, _, _)
ZodParams(inputSchema, params, i) ==
  IF i > Len(inputSchema.properties) THEN params
  ELSE LET propName == inputSchema.properties[i].name
           propSchema == inputSchema.properties[i].schema
           required == Includes(inputSchema.required, propName)
       IN  ZodParams(inputSchema,
             IF propName = RequestBody
             THEN HoistRequestBody(propName, propSchema, params, 1)
             ELSE parseSchema(propName, required, params),
             i + 1)

\* getOAPIServer's registration loop, lines 158-246, from index i on: the
\* throw of McpServer.tool is caught and the tool is left out
RECURSIVE RegisterOpenApiTools(_, _, _)
RegisterOpenApiTools(mappedTools, i, registered) ==
  IF i > Len(mappedTools) THEN [threw |-> FALSE, tools |-> registered]
  ELSE IF IsRegistered(registered, mappedTools[i].name)
  THEN RegisterOpenApiTools(mappedTools, i + 1, registered)
  ELSE LET tool == mappedTools[i]
           params == ZodParams(tool.inputSchema, <<>>, 1)
           required == SelectSeq(params, LAMBDA q : q.required)
       IN  RegisterOpenApiTools(mappedTools, i + 1,
             Append(registered,
               RegisteredTool(tool.name,
                 [k \in 1..Len(params) |-> params[k].name],
                 [k \in 1..Len(required) |-> required[k].name],
                 tool.op, tool.parameters)))

\* the tools of a session built from the d-th answer of the upstream
Registration(config, d) ==
  IF config.type = "graphql"
  THEN RegisterGraphQLTools(config, Graphs[d], 1, <<>>)
  ELSE RegisterOpenApiTools(mapOpenApiToMcpTools(config, OpenApiSpecs[d], 1, <<>>), 1, <<>>)

-----------------------------------------------------------------------------
(* The gateway: a tool invocation's outcome *)

\* what the upstream does with a request: no response at all, or a status
\* with or without a body
NetworkFailure == [response |-> FALSE, status |-> 0, body |-> FALSE]

Response(status, body) == [response |-> TRUE, status |-> status, body |-> body]

\* the answers an upstream gives
Outcomes ==
  { NetworkFailure,
    Response(200, TRUE), Response(204, FALSE), Response(302, FALSE),
    Response(400, TRUE), Response(401, TRUE), Response(403, FALSE),
    Response(404, TRUE), Response(404, FALSE), Response(422, TRUE),
    Response(500, TRUE), Response(503, FALSE) }

NoOutcome == [response |-> FALSE, status |-> -1, body |-> FALSE]

Data(outcome) == IF outcome.body THEN "body" ELSE "none"

\* requestData lines 439-482: axios resolves for 200..499 (validateStatus)
\* and rejects otherwise
requestDataResult(outcome) ==
  IF outcome.response /\ outcome.status >= 200 /\ outcome.status < 500
  THEN IF outcome.status >= 200 /\ outcome.status < 300
       THEN [success |-> TRUE, statusCode |-> outcome.status, data |-> Data(outcome)]
       ELSE [success |-> FALSE, statusCode |-> outcome.status, data |-> Data(outcome)]
  ELSE IF outcome.response
  THEN [success |-> FALSE, statusCode |-> outcome.status, data |-> Data(outcome)]
  ELSE [success |-> FALSE, statusCode |-> 503, data |-> "none"]

\* executeApiCall's result: 2xx and 3xx are success, 4xx and 5xx carry the
\* status and the body, a network error carries neither
executeApiCallResult(outcome) ==
  IF outcome.response /\ outcome.status >= 200 /\ outcome.status < 400
  THEN [success |-> TRUE, statusCode |-> outcome.status, data |-> Data(outcome)]
  ELSE IF outcome.response
  THEN [success |-> FALSE, statusCode |-> outcome.status, data |-> Data(outcome)]
  ELSE [success |-> FALSE, statusCode |-> 0, data |-> "none"]

\* a variant of ErrorCodeFor: only 400 is mapped to InvalidParams
ErrorCodeOnly400(statusCode) ==
  IF statusCode = 400 THEN "InvalidParams" ELSE "InternalError"

\* lines 214-223 and 327-336
ErrorCodeFor(statusCode) ==
  IF statusCode = 400 THEN "InvalidParams"
  ELSE IF statusCode = 404 THEN "InvalidParams"
  ELSE "InternalError"

\* what the handler's try block ends in: the content it returns or the error
\* it throws
Ended(kind, code, data) == [kind |-> kind, code |-> code, data |-> data]

\* lines 201-226 and 314-339
HandlerTry(result) ==
  IF result.success THEN Ended("content", "", result.data)
  ELSE Ended("McpError", ErrorCodeFor(result.statusCode), result.data)

\* a variant of HandlerCatch: a catch that rethrows whatever it caught
CatchRethrows(ended) == ended

\* lines 227-238 and 340-351: an McpError is rethrown, anything else becomes
\* an InternalError
HandlerCatch(ended) ==
  IF ended.kind = "Error" THEN Ended("McpError", "InternalError", "none")
  ELSE ended

-----------------------------------------------------------------------------
(* The gateway: sessions and what the outside sees *)

MaxSessions == 2

\* the entries the apiCallDetails.parameters of one session's tools may hold
\* in all before a further tools/call of the session is left out
MaxParameters == 3

\* lines 120-123: the header parameters of a session
HeaderParameters(inputHeader) == Keys(inputHeader)

\* the entries held by the apiCallDetails.parameters of the tools from i on
RECURSIVE ParametersHeld(_, _)
ParametersHeld(tools, i) ==
  IF i > Len(tools) THEN 0
  ELSE Len(tools[i].parameters) + ParametersHeld(tools, i + 1)

NoCall == [stage |-> "none", tool |-> 0]

\* a GET /mcp and the session it leads to.  phase: building (getOAPIServer or
\* getGraphQLServer is awaited), open, closed, failed.  connOpen: the client's
\* connection (res) has not closed.
NewSession(headers, inputHeader) ==
  [phase |-> "building", connOpen |-> TRUE, inbound |-> headers,
   inputHeader |-> inputHeader, schema |-> 0, tools |-> <<>>, call |-> NoCall,
   failure |-> ""]

\* req.query.sessionId: absent, the id of a transport the gateway created, or
\* a name every object inherits (constructor, toString, ...)
SessionId(n) == [kind |-> "uuid", n |-> n]

InheritedKey == [kind |-> "inherited", n |-> 0]

PostKeys == {None} \cup {Some(SessionId(n)) : n \in 1..MaxSessions} \cup {Some(InheritedKey)}

\* transports[sessionId] on the plain object transports
Lookup(map, key) ==
  IF key.kind = "inherited" THEN "inherited"
  ELSE IF key.n \in map THEN "transport"
  ELSE "undefined"

\* the last thing the gateway did that the outside can see
Event(type, session, status, call, headers, ended, upstream, key) ==
  [type |-> type, session |-> session, status |-> status, call |-> call,
   headers |-> headers, kind |-> ended.kind, code |-> ended.code,
   data |-> ended.data, upstream |-> upstream, key |-> key]

NoEnded == Ended("", "", "")

NoEvent == Event("none", 0, 0, "", <<>>, NoEnded, NoOutcome, None)

\* call is the method of the request answered
HttpResponse(method, session, status, key) ==
  Event("response", session, status, method, <<>>, NoEnded, NoOutcome, key)

UpstreamCall(session, call, headers) ==
  Event("upstream", session, 0, call, headers, NoEnded, NoOutcome, None)

ToolResult(session, ended, upstream) ==
  Event("result", session, 0, "tool", <<>>, ended, upstream, None)

-----------------------------------------------------------------------------
(* Specification SpecQuery: the GraphQL tool handler's query construction, *)
(* applied call after call to every root field of the compiled graph and   *)
(* every arguments object of at most MaxFilterKeys entries over that       *)
(* field's mcpParams, with and without preset parameters.                  *)

MaxFilterKeys == 3

\* the value a caller supplies for a parameter of the given scalar type, in
\* its string form (the tool's input schema admits no other kind of value)
ValueFor(param) ==
  IF param.type = None THEN "Ada"
  ELSE IF param.type[1].name = <<"Int">> THEN "30"
  ELSE IF param.type[1].name = <<"Boolean">> THEN "true"
  ELSE "Ada"

\* the members of a set of indices in increasing order
RECURSIVE Ascending(_)
Ascending(S) ==
  IF S = {} THEN <<>>
  ELSE LET m == CHOOSE x \in S : \A y \in S : x <= y
       IN  <<m>> \o Ascending(S \ {m})

\* the filters objects over a parameter list: entries in the order of the list
FiltersOver(mcpParams) ==
  { [i \in 1..Len(Ascending(S)) |->
       [k |-> mcpParams[Ascending(S)[i]].name, v |-> ValueFor(mcpParams[Ascending(S)[i]])]]
    : S \in {T \in SUBSET (1..Len(mcpParams)) : Cardinality(T) <= MaxFilterKeys} }

NoQuery == [literal |-> <<>>, args |-> <<>>, selections |-> <<>>, text |-> <<>>]

\* the query builder at rest, for the specifications that are not about it
QueryIdle ==
  /\ qpc = "idle"
  /\ qTool = 1
  /\ qParams = <<>>
  /\ qFilters = <<>>
  /\ qGraph = <<>>
  /\ qQuery = NoQuery

\* the compiler at rest, for the specifications that are not about it
CompileIdle ==
  /\ cpc = "idle"
  /\ cSchema = 1
  /\ cDepth = 0
  /\ cRoot = 1
  /\ cArg = 1
  /\ cStack = <<>>
  /\ cTool = <<>>
  /\ cGraph = <<>>

\* the gateway at rest, for the specifications that are not about it
GateIdle ==
  /\ cfg = Config("graphql", None, <<>>, None, <<>>)
  /\ running = TRUE
  /\ transports = {}
  /\ sessions = <<>>
  /\ event = NoEvent
  /\ streams = <<>>

\* config.filter.presetParams of the gateways the builder is run under
PresetParams ==
  { <<>>,
    << [k |-> <<"name">>, v |-> "Bob"], [k |-> <<"first">>, v |-> "7"] >> }

\* the spread the other way round: the call's arguments win
PresetUnder(toolParams, presetParams) == Spread(presetParams, toolParams)

\* line 308: the preset parameters are spread over the call's arguments
PresetMerge(toolParams, presetParams) == Spread(toolParams, presetParams)

QInit ==
  /\ \E presetParams \in PresetParams :
       cfg = [Config("graphql", None, <<>>, None, <<>>) EXCEPT
                !.presetParams = presetParams]
  /\ running = TRUE
  /\ transports = {}
  /\ sessions = <<>>
  /\ event = NoEvent
  /\ streams = <<>>
  /\ CompileIdle
  /\ qpc = "idle"
  /\ qGraph = GraphQuery
  /\ qTool \in 1..Len(GraphQuery)
  /\ qParams \in FiltersOver(GraphQuery[qTool].mcpParams)
  /\ qFilters = <<>>
  /\ qQuery = NoQuery

\* the tool's handler up to the request, lines 307-312, and requestData up
\* to it: the preset parameters are merged in, the query is built for
\* tool.name, toolParams and tool.mcpParams, and the descriptor keeps what
\* selectionForType wrote into it
BuildQuery ==
  /\ qpc = "idle"
  /\ LET tool == qGraph[qTool]
         toolParams == PresetMerge(qParams, cfg.presetParams)
     IN  /\ qFilters' = toolParams
         /\ qQuery' = buildQueryForRoot(qGraph, tool.name, tool.mcpParams, toolParams)
         /\ qGraph' = AfterBuildQuery(qGraph, tool.name)
  /\ qpc' = "built"
  /\ UNCHANGED <<qTool, qParams>>
  /\ UNCHANGED <<compVars, gateVars, streams>>

\* the next tools/call of the session arrives
NextCall ==
  /\ qpc = "built"
  /\ qpc' = "idle"
  /\ qTool' \in 1..Len(qGraph)
  /\ qParams' \in FiltersOver(qGraph[qTool'].mcpParams)
  /\ qFilters' = <<>>
  /\ qQuery' = NoQuery
  /\ UNCHANGED qGraph
  /\ UNCHANGED <<compVars, gateVars, streams>>

QNext == BuildQuery \/ NextCall

SpecQuery == QInit /\ [][QNext]_vars

-----------------------------------------------------------------------------
(* Reading the emitted text back: GraphQL's grammar for an object value    *)
(* and for an argument list.  Commas are insignificant in GraphQL.         *)

IsP(tok, s) == tok.t = "p" /\ tok.v = <<s>>

IsName(tok) == tok.t = "n"

IsValue(tok) == tok.t \in {"raw", "str"}

NoCommas(toks) == SelectSeq(toks, LAMBDA tok : ~IsP(tok, ","))

NoParse == [ok |-> FALSE, next |-> 0, leaves |-> {}, keys |-> <<>>]

\* the fields `name: value` from token i up to the closing brace of the object
\* they are in; prefix is the key chain of that object.  leaves collects
\* [path, val] of every scalar met and keys every key chain met, in order.
RECURSIVE ParseFields(_, _, _, _)
ParseFields(toks, i, prefix, acc) ==
  IF i > Len(toks) THEN NoParse
  ELSE IF IsP(toks[i], "}") THEN [acc EXCEPT !.ok = TRUE, !.next = i + 1]
  ELSE IF i + 2 <= Len(toks) /\ IsName(toks[i]) /\ IsP(toks[i + 1], ":")
  THEN LET key == Append(prefix, toks[i].v)
           met == [acc EXCEPT !.keys = Append(acc.keys, key)]
       IN  IF IsValue(toks[i + 2])
           THEN ParseFields(toks, i + 3, prefix,
                  [met EXCEPT !.leaves = met.leaves \cup {[path |-> key, val |-> toks[i + 2]]}])
           ELSE IF IsP(toks[i + 2], "{")
           THEN LET inner == ParseFields(toks, i + 3, key, met)
                IN  IF inner.ok THEN ParseFields(toks, inner.next, prefix, inner) ELSE NoParse
           ELSE NoParse
  ELSE NoParse

\* an object value `{ ... }` that is the whole of the text
ParseObject(text) ==
  LET toks == NoCommas(text)
      r == ParseFields(toks, 2, <<>>, [NoParse EXCEPT !.ok = TRUE])
  IN  IF Len(toks) >= 2 /\ IsP(toks[1], "{") /\ r.ok /\ r.next = Len(toks) + 1
      THEN r ELSE NoParse

\* the arguments between `(` and `)`: one or more `name: value`
ParseArguments(text) ==
  LET toks == NoCommas(text) \o Punct("}")
      r == ParseFields(toks, 1, <<>>, [NoParse EXCEPT !.ok = TRUE])
  IN  IF r.ok /\ r.next = Len(toks) + 1 /\ Len(r.keys) >= 1 THEN r ELSE NoParse

NoDuplicates(seq) == \A i, j \in 1..Len(seq) : seq[i] = seq[j] => i = j

\* the parameter of the current root field that a filters key names (a key
\* that names none stands for a parameter without path)
ParamOf(key) ==
  IF \E param \in Range(GraphQuery[qTool].mcpParams) : param.name = key
  THEN CHOOSE param \in Range(GraphQuery[qTool].mcpParams) : param.name = key
  ELSE [name |-> key, type |-> None, path |-> None, fieldsPath |-> None]

IsWhereParam(param) == param.fieldsPath # None

IsOperational(param) ==
  /\ param.path # None
  /\ Len(param.path[1]) > 0
  /\ StrIncludes(Last(param.path[1]), <<"OperationFilterInput">>)

-----------------------------------------------------------------------------
(* Claims about the query builder, checked under SpecQuery *)

\* C2: for every root field and every filters map over its McpParams, the
\* query text is valid GraphQL: the where literal, when there is one, is a
\* well-formed object value (every key followed by a value, braces balanced),
\* the where key is absent when the literal is empty, and the parentheses
\* after the root field enclose at least one argument.
C2_QueryIsValidGraphQL ==
  qpc = "built" =>
    /\ Len(qQuery.literal) > 0 => ParseObject(qQuery.literal).ok
    /\ Len(qQuery.literal) = 0 =>
         \A i \in 1..Len(qQuery.args) : qQuery.args[i].v # <<"where">>
    /\ ParseArguments(qQuery.args).ok

\* the literal the spec describes for one selected parameter: the key chain
\* fieldsPath around { eq: value } under an operational filter and around
\* { leafName: value } otherwise, a String value quoted, others bare
ExpectedLeaf(param, value) ==
  LET fieldsPath == param.fieldsPath[1]
      rendered == IF param.type[1].name = <<"String">> THEN Quoted(value) ELSE Raw(value)
      leafName == SubSeq(param.name, Len(JoinNames(fieldsPath)) + 1, Len(param.name))
      leaf == IF IsOperational(param) THEN <<"eq">> ELSE leafName
  IN  WrapPath(fieldsPath, Punct("{") \o Name(leaf) \o Punct(":") \o rendered \o Punct("}"))

\* { name: { eq: "Ada" }, age: { eq: 30 } }
Scenario5Literal ==
  Punct("{") \o Name(<<"name">>) \o Punct(":")
    \o Punct("{") \o Name(<<"eq">>) \o Punct(":") \o Quoted("Ada") \o Punct("}")
  \o Punct(",") \o Name(<<"age">>) \o Punct(":")
    \o Punct("{") \o Name(<<"eq">>) \o Punct(":") \o Raw("30") \o Punct("}")
  \o Punct("}")

\* C3: every leaf of the where literal is rendered by its scalar kind (String
\* quoted, Boolean and numbers bare), as { eq: value } under an operational
\* filter and as { leafName: value } otherwise; filters {name: "Ada", age: 30}
\* yield { name: { eq: "Ada" }, age: { eq: 30 } }.
C3_LeafRenderedByScalarKind ==
  qpc = "built" =>
    /\ (Len(qFilters) = 1 /\ IsWhereParam(ParamOf(qFilters[1].k))) =>
         qQuery.literal = ExpectedLeaf(ParamOf(qFilters[1].k), qFilters[1].v)
    /\ (GraphQuery[qTool].name = <<"users">> /\ Keys(qFilters) = << <<"name">>, <<"age">> >>) =>
         qQuery.literal = Scenario5Literal

\* C4: when the selected parameters are nested filter parameters of one root
\* field, the where literal holds each one's leaf exactly under the key chain
\* of its fieldsPath, and no key chain occurs twice (a shared prefix is written
\* once for its whole group).
C4_LeafUnderItsFieldsPath ==
  (/\ qpc = "built"
   /\ Len(qFilters) >= 1
   /\ \A i \in 1..Len(qFilters) :
        LET param == ParamOf(qFilters[i].k)
        IN  IsWhereParam(param) /\ Len(param.fieldsPath[1]) > 0 /\ IsOperational(param))
  => LET r == ParseObject(qQuery.literal)
     IN  /\ r.ok
         /\ {leaf.path : leaf \in r.leaves}
              = {Append(ParamOf(qFilters[i].k).fieldsPath[1], <<"eq">>) : i \in 1..Len(qFilters)}
         /\ NoDuplicates(r.keys)

\* the deepest nesting of braces in a text, from token i on, open braces
\* open and deepest so far
RECURSIVE BraceDepth(_, _, _, _)
BraceDepth(toks, i, open, deepest) ==
  IF i > Len(toks) THEN deepest
  ELSE IF IsP(toks[i], "{")
  THEN BraceDepth(toks, i + 1, open + 1, IF open + 1 > deepest THEN open + 1 ELSE deepest)
  ELSE IF IsP(toks[i], "}")
  THEN BraceDepth(toks, i + 1, open - 1, deepest)
  ELSE BraceDepth(toks, i + 1, open, deepest)

\* C13: with pathDepth d, the emitted query nests at most d+1 levels: the
\* sub-selections inside the root field's selection set are at most d+1 deep,
\* the object literals of the where literal are at most d+1 deep, and no
\* McpParam has a fieldsPath longer than d.
C13_NestingBoundedByDepth ==
  /\ \A t \in 1..Len(qGraph) : \A param \in Range(qGraph[t].mcpParams) :
       param.fieldsPath # None => Len(param.fieldsPath[1]) <= PathDepth
  /\ qpc = "built" =>
       /\ BraceDepth(qQuery.selections, 1, 0, 0) <= PathDepth + 1
       /\ BraceDepth(qQuery.literal, 1, 0, 0) <= PathDepth + 1

\* C14: for every GraphQL tool and every preset key k, k is not a key of the
\* tool's input schema, and on every invocation the filters handed to the
\* query construction hold k with the preset value, whatever the call's
\* arguments say about k.
C14_PresetParamsPinned ==
  \A e \in Range(cfg.presetParams) :
    /\ \A t \in 1..Len(qGraph) : ~Includes(ToolParams(cfg, qGraph[t]), e.k)
    /\ qpc = "built" => (HasKey(qFilters, e.k) /\ Get(qFilters, e.k) = e.v)

\* a query has been built for a call whose arguments gave a preset key a
\* value of their own
C14_Witness ==
  /\ qpc = "built"
  /\ \E e \in Range(cfg.presetParams) :
       /\ HasKey(qParams, e.k)
       /\ Get(qParams, e.k) # e.v
       /\ Get(qFilters, e.k) = e.v

\* the root field of the schema a compiled tool comes from
RootField(tool) ==
  LET query == getInternalObject(Types, QueryTypeName, "OBJECT")[1]
  IN  CHOOSE obj \in Range(query.fields[1]) : obj.name = tool.name

\* the argument list holds name: value with the value written as the token
HasArgument(args, name, value) ==
  \E i \in 1..(Len(args) - 2) :
    /\ <<args[i]>> = Name(name)
    /\ IsP(args[i + 1], ":")
    /\ <<args[i + 2]>> = value

\* C15: every argument of a root field other than where whose type is a
\* scalar is a pagination parameter of the tool, and whenever a call supplies
\* one the argument list of the emitted query holds name: value for it, a
\* String double-quoted, a number bare (for the other scalars either form is
\* accepted here).
C15_PaginationArgsEmitted ==
  qpc = "built" =>
    LET tool == qGraph[qTool]
    IN  /\ \A arg \in Range(RootField(tool).args) :
             (arg.name # <<"where">> /\ isScalarField(arg)) =>
               \E page \in Range(tool.pagination) : page.name = arg.name
        /\ \A e \in Range(qFilters) :
             \A page \in Range(tool.pagination) :
               page.name = e.k =>
                 IF page.type[1].name = <<"String">>
                 THEN HasArgument(qQuery.args, e.k, Quoted(e.v))
                 ELSE IF page.type[1].name \in {<<"Int">>, <<"Float">>}
                 THEN HasArgument(qQuery.args, e.k, Raw(e.v))
                 ELSE \/ HasArgument(qQuery.args, e.k, Raw(e.v))
                      \/ HasArgument(qQuery.args, e.k, Quoted(e.v))

\* the name of the type, wrappers removed, of a field of an object type of
\* the schema
FieldTypeName(typeName, fieldName) ==
  LET ty == CHOOSE t \in Range(Types) : t.name = typeName /\ t.kind = "OBJECT"
      f == CHOOSE f \in Range(ty.fields[1]) : f.name = fieldName
  IN  getFieldType(f).name

\* a selection set read from token i on: path is the chain of object types
\* of the fields whose sub-selections are open, last the type of the field
\* just read.  TRUE when no sub-selection opens on a type of its own chain.
RECURSIVE NoTypeReentered(_, _, _, _)
NoTypeReentered(toks, i, path, last) ==
  IF i > Len(toks) THEN TRUE
  ELSE IF IsName(toks[i])
  THEN NoTypeReentered(toks, i + 1, path, FieldTypeName(Last(path), toks[i].v))
  ELSE IF IsP(toks[i], "{")
  THEN last \notin Range(path) /\ NoTypeReentered(toks, i + 1, Append(path, last), last)
  ELSE IF IsP(toks[i], "}")
  THEN NoTypeReentered(toks, i + 1, SubSeq(path, 1, Len(path) - 1), last)
  ELSE NoTypeReentered(toks, i + 1, path, last)

\* C18: along any chain of nested fields of an emitted selection set no
\* object type occurs twice (a field whose type is already on the path has no
\* sub-selection), and no McpParam's path lists an input type twice.
C18_NoTypeReentered ==
  /\ \A t \in 1..Len(qGraph) : \A param \in Range(qGraph[t].mcpParams) :
       param.path # None => NoDuplicates(param.path[1])
  /\ qpc = "built" =>
       LET root == getFieldType(RootField(qGraph[qTool])).name
       IN  NoTypeReentered(qQuery.selections, 1, <<root>>, root)

\* the fields of the object types of the schema
ObjectFields ==
  UNION { Range(ty.fields[1]) :
            ty \in {t \in Range(Types) : t.kind = "OBJECT" /\ t.fields # None} }

\* the names of the object-typed fields of the schema that contain parent
ParentFields ==
  { f.name : f \in {g \in ObjectFields : getFieldType(g).kind = "OBJECT" /\ IsParentField(g)} }

\* C19: an object-typed field whose name contains parent appears in no
\* emitted selection set, neither with nor without a sub-selection.
C19_ParentFieldsSkipped ==
  qpc = "built" =>
    \A i \in 1..Len(qQuery.selections) :
      IsName(qQuery.selections[i]) => qQuery.selections[i].v \notin ParentFields

\* the key chain of a parameter's leaf in the where literal: its fieldsPath
\* and then eq under an operational filter, the leaf's own name otherwise
LeafPath(param) ==
  LET fieldsPath == param.fieldsPath[1]
      leafName == SubSeq(param.name, Len(JoinNames(fieldsPath)) + 1, Len(param.name))
  IN  Append(fieldsPath, IF IsOperational(param) THEN <<"eq">> ELSE leafName)

\* C21: in the where literal, the leaf of each selected parameter carries the
\* value the filters map holds under that parameter's own flat name, for
\* every filters map, also when one key is a part of another parameter's name
\* (keys name and owner_name).
C21_LeafCarriesOwnValue ==
  qpc = "built" =>
    \A i \in 1..Len(qFilters) :
      LET param == ParamOf(qFilters[i].k)
      IN  IsWhereParam(param) =>
            \A leaf \in ParseObject(qQuery.literal).leaves :
              leaf.path = LeafPath(param) => leaf.val.v = <<qFilters[i].v>>

\* C22: the where literal holds a leaf only for the parameters whose name is
\* a key of the filters map handed to the builder: a parameter the caller did
\* not supply and that is not preset contributes nothing, also when the map
\* (with the preset keys, which need not be parameters of the tool) has as
\* many keys as the tool has parameters or more.
C22_LeafOnlyForSuppliedParams ==
  qpc = "built" =>
    \A param \in Range(GraphQuery[qTool].mcpParams) :
      (IsWhereParam(param) /\ ~HasKey(qFilters, param.name)) =>
        \A leaf \in ParseObject(qQuery.literal).leaves : leaf.path # LeafPath(param)

-----------------------------------------------------------------------------
(* Specification SpecCompile: the constructor of Graph run step by step.   *)
(* One step is one pass of a loop body up to the next call of a recursive  *)
(* traversal or the return from one; cStack holds the activations of       *)
(* extractFieldsDependencies and extractFilterDependencies.                *)

\* the deepest config.pathDepth compiled with
MaxDepth == 3

\* the activations the stack may hold
MaxStack == 5

\* an introspection result whose object types and input types refer to
\* themselves and to each other, and whose root fields carry a scalar
\* argument named like a leaf of their where input, after it and before it
TypesCyclic == <<
  Type("OBJECT", <<"Query">>,
    Some(<< Field(<<"nodes">>, ListOf(Ref("OBJECT", <<"Node">>)),
              << Field(<<"where">>, Ref("INPUT_OBJECT", <<"NodeFilter">>), <<>>),
                 Field(<<"level">>, IntT, <<>>) >>),
            Field(<<"tree">>, Ref("OBJECT", <<"Node">>),
              << Field(<<"level">>, IntT, <<>>),
                 Field(<<"where">>, Ref("INPUT_OBJECT", <<"NodeFilter">>), <<>>) >>) >>),
    None),
  Type("OBJECT", <<"Node">>,
    Some(<< Field(<<"id">>, NonNull(IDT), <<>>),
            Field(<<"next">>, Ref("OBJECT", <<"Node">>), <<>>),
            Field(<<"owner">>, NonNull(Ref("OBJECT", <<"Owner">>)), <<>>) >>),
    None),
  Type("OBJECT", <<"Owner">>,
    Some(<< Field(<<"name">>, StringT, <<>>),
            Field(<<"node">>, Ref("OBJECT", <<"Node">>), <<>>) >>),
    None),
  Type("INPUT_OBJECT", <<"NodeFilter">>, None,
    Some(<< Field(<<"level">>, IntT, <<>>),
            Field(<<"self">>, Ref("INPUT_OBJECT", <<"NodeFilter">>), <<>>),
            Field(<<"other">>, Ref("INPUT_OBJECT", <<"OtherFilter">>), <<>>) >>)),
  Type("INPUT_OBJECT", <<"OtherFilter">>, None,
    Some(<< Field(<<"name">>, StringT, <<>>),
            Field(<<"back">>, Ref("INPUT_OBJECT", <<"NodeFilter">>), <<>>) >>)),
  Type("SCALAR", <<"String">>, None, None),
  Type("SCALAR", <<"Int">>, None, None),
  Type("SCALAR", <<"ID">>, None, None)
>>

\* the introspection results compiled
CompileSchemas == <<Types, TypesCyclic>>

\* query.fields of the constructor, lines 76-79
RootFields(types) ==
  LET query == getInternalObject(types, QueryTypeName, "OBJECT")
  IN  IF query = None \/ query[1].fields = None THEN <<>> ELSE query[1].fields[1]

\* lines 230-235: extractFieldsDependencies calls itself for nodeObj
FieldsDescent(nodeObj, node, path, depth) ==
  /\ nodeObj.fields # None
  /\ ~IsParentField(node)
  /\ nodeObj.name \notin Range(path)
  /\ depth > 0

\* a descent without the path and depth tests
FilterDescentUnguarded(filterObj, path, depth) ==
  filterObj.inputFields # None

\* lines 161-165: extractFilterDependencies calls itself for filterObj
FilterDescent(filterObj, path, depth) ==
  /\ filterObj.inputFields # None
  /\ filterObj.name \notin Range(path)
  /\ depth > 0

\* an activation of extractFieldsDependencies (fn = "fields": list is
\* nodes.fields) or of extractFilterDependencies (fn = "filter": list is
\* node.inputFields); i is the loop index, stage tells whether the nested
\* call of the pass has been made
Frame(fn, node, list, path, fields, depth) ==
  [fn |-> fn, node |-> node, list |-> list, path |-> path, fields |-> fields,
   depth |-> depth, i |-> 1, stage |-> "nested"]

\* lines 240-243: the field replaced by the object of its type
FieldEntry(node, obj, sub, path) ==
  [name |-> node.name, kind |-> obj.kind, type |-> None, args |-> <<>>,
   fields |-> sub, path |-> path]

\* the entry of graph.query under assembly, lines 104-112
NewTool(obj, nodes) ==
  [name |-> obj.name, kind |-> nodes.kind, fields |-> nodes.fields,
   pagination |-> <<>>, mcpParams |-> <<>>]

CInit ==
  /\ QueryIdle
  /\ GateIdle
  /\ cpc = "root"
  /\ cSchema \in 1..Len(CompileSchemas)
  /\ cDepth \in 0..MaxDepth
  /\ cRoot = 1
  /\ cArg = 1
  /\ cStack = <<>>
  /\ cTool = <<>>
  /\ cGraph = <<>>

\* lines 80-83: the next root field, its object and the call of
\* extractFieldsDependencies for it
StartRootField ==
  /\ cpc = "root"
  /\ cRoot <= Len(RootFields(CompileSchemas[cSchema]))
  /\ LET obj == RootFields(CompileSchemas[cSchema])[cRoot]
         nodes == extractObject(CompileSchemas[cSchema], obj.type[1])
     IN  IF nodes = None
         THEN /\ cRoot' = cRoot + 1
              /\ UNCHANGED <<cpc, cArg, cStack, cTool>>
         ELSE /\ cTool' = NewTool(obj, nodes[1])
              /\ cArg' = 1
              /\ IF nodes[1].fields = None
                 THEN cpc' = "args" /\ UNCHANGED cStack
                 ELSE /\ cpc' = "fields"
                      /\ cStack' = <<Frame("fields", nodes[1], nodes[1].fields[1],
                                           <<nodes[1].name>>, <<>>, cDepth)>>
              /\ UNCHANGED cRoot
  /\ UNCHANGED <<cSchema, cDepth, cGraph>>
  /\ UNCHANGED <<queryVars, gateVars, streams>>

\* one pass of the loop of extractFieldsDependencies, lines 224-246, up to
\* its nested call
FieldsStep ==
  /\ cpc = "fields"
  /\ LET top == Last(cStack)
         n == Len(cStack)
     IN  /\ top.i <= Len(top.list)
         /\ LET node0 == top.list[top.i]
                node == IF isNonNullField(node0) \/ isListField(node0)
                        THEN [node0 EXCEPT !.type = Some(getFieldType(node0))]
                        ELSE node0
                nodeObj == IF isObjectField(node)
                           THEN extractObject(CompileSchemas[cSchema], node.type[1])
                           ELSE None
            IN  IF nodeObj = None
                THEN cStack' = [cStack EXCEPT ![n].list[top.i] = node, ![n].i = top.i + 1]
                ELSE IF FieldsDescent(nodeObj[1], node, top.path, top.depth)
                THEN /\ n < MaxStack
                     /\ cStack' = Append([cStack EXCEPT ![n].list[top.i] = node],
                                    Frame("fields", nodeObj[1], nodeObj[1].fields[1],
                                          Append(top.path, nodeObj[1].name), <<>>,
                                          top.depth - 1))
                ELSE cStack' = [cStack EXCEPT
                       ![n].list[top.i] = FieldEntry(node, nodeObj[1], nodeObj[1].fields, top.path),
                       ![n].i = top.i + 1]
  /\ UNCHANGED <<cpc, cSchema, cDepth, cRoot, cArg, cTool, cGraph>>
  /\ UNCHANGED <<queryVars, gateVars, streams>>

\* extractFieldsDependencies returns: lines 240-243 of the caller, or the
\* constructor goes on to the arguments
FieldsReturn ==
  /\ cpc = "fields"
  /\ LET top == Last(cStack)
         n == Len(cStack)
     IN  /\ top.i > Len(top.list)
         /\ IF n > 1
            THEN LET caller == cStack[n - 1]
                 IN  /\ cStack' = [SubSeq(cStack, 1, n - 1) EXCEPT
                          ![n - 1].list[caller.i] =
                            FieldEntry(caller.list[caller.i], top.node, Some(top.list),
                                       caller.path),
                          ![n - 1].i = caller.i + 1]
                     /\ UNCHANGED <<cpc, cTool>>
            ELSE /\ cStack' = <<>>
                 /\ cTool' = [cTool EXCEPT !.fields = Some(top.list)]
                 /\ cpc' = "args"
  /\ UNCHANGED <<cSchema, cDepth, cRoot, cArg, cGraph>>
  /\ UNCHANGED <<queryVars, gateVars, streams>>

\* one pass of the loop over the root field's arguments, lines 89-103, up
\* to its call of extractFilterDependencies
ArgStep ==
  /\ cpc = "args"
  /\ LET obj == RootFields(CompileSchemas[cSchema])[cRoot]
     IN  /\ cArg <= Len(obj.args)
         /\ LET arg == obj.args[cArg]
                filterObj == extractObject(CompileSchemas[cSchema], arg.type[1])
            IN  IF arg.name = <<"where">>
                THEN IF filterObj # None
                     THEN /\ cpc' = "filter"
                          /\ cStack' = <<Frame("filter", filterObj[1],
                                           IF filterObj[1].inputFields = None THEN <<>>
                                           ELSE filterObj[1].inputFields[1],
                                           <<filterObj[1].name>>, <<>>, cDepth)>>
                          /\ UNCHANGED <<cArg, cTool>>
                     ELSE /\ cArg' = cArg + 1
                          /\ UNCHANGED <<cpc, cStack, cTool>>
                ELSE /\ cArg' = cArg + 1
                     /\ cTool' = IF isScalarField(arg)
                                 THEN [cTool EXCEPT
                                         !.pagination = Append(@, ArgParam(arg)),
                                         !.mcpParams = <<ArgParam(arg)>> \o @]
                                 ELSE cTool
                     /\ UNCHANGED <<cpc, cStack>>
  /\ UNCHANGED <<cSchema, cDepth, cRoot, cGraph>>
  /\ UNCHANGED <<queryVars, gateVars, streams>>

\* lines 189-216 for the input field the activation is at: the leaf's flat
\* name is pushed unless mcpParams has the name
LeafParams(top, mcpParams) ==
  LET filter == top.list[top.i]
      leaf == /\ filter.name \notin Connectors
              /\ (isNonNullField(filter) \/ isListField(filter) \/ isScalarField(filter))
      name == FlatName(top.node, top.fields, filter)
  IN  IF leaf /\ Len(SelectSeq(mcpParams, LAMBDA param : param.name = name)) = 0
      THEN Append(mcpParams, McpParam(name, getFieldType(filter), top.path, top.fields))
      ELSE mcpParams

\* one pass of the loop of extractFilterDependencies, lines 155-218: up to
\* the nested call when there is one, else the whole pass
FilterStep ==
  /\ cpc = "filter"
  /\ LET top == Last(cStack)
         n == Len(cStack)
     IN  /\ top.i <= Len(top.list)
         /\ top.stage = "nested"
         /\ LET filter == top.list[top.i]
                filterObj == IF /\ filter.name \notin Connectors
                                /\ filter.type # None
                                /\ filter.type[1].kind = "INPUT_OBJECT"
                             THEN extractObject(CompileSchemas[cSchema], filter.type[1])
                             ELSE None
            IN  IF filterObj # None /\ FilterDescent(filterObj[1], top.path, top.depth)
                THEN /\ n < MaxStack
                     /\ cStack' = Append([cStack EXCEPT ![n].stage = "leaf"],
                                    Frame("filter", filterObj[1], filterObj[1].inputFields[1],
                                          Append(top.path, filterObj[1].name),
                                          Append(top.fields, filter.name), top.depth - 1))
                     /\ UNCHANGED cTool
                ELSE /\ cStack' = [cStack EXCEPT ![n].i = top.i + 1]
                     /\ cTool' = [cTool EXCEPT !.mcpParams = LeafParams(top, @)]
  /\ UNCHANGED <<cpc, cSchema, cDepth, cRoot, cArg, cGraph>>
  /\ UNCHANGED <<queryVars, gateVars, streams>>

\* the rest of a pass whose nested call has returned, lines 172-216
FilterLeaf ==
  /\ cpc = "filter"
  /\ LET top == Last(cStack)
         n == Len(cStack)
     IN  /\ top.i <= Len(top.list)
         /\ top.stage = "leaf"
         /\ cStack' = [cStack EXCEPT ![n].i = top.i + 1, ![n].stage = "nested"]
         /\ cTool' = [cTool EXCEPT !.mcpParams = LeafParams(top, @)]
  /\ UNCHANGED <<cpc, cSchema, cDepth, cRoot, cArg, cGraph>>
  /\ UNCHANGED <<queryVars, gateVars, streams>>

\* extractFilterDependencies returns, to its caller or to the args loop
FilterReturn ==
  /\ cpc = "filter"
  /\ LET top == Last(cStack)
         n == Len(cStack)
     IN  /\ top.i > Len(top.list)
         /\ cStack' = SubSeq(cStack, 1, n - 1)
         /\ IF n > 1
            THEN UNCHANGED <<cpc, cArg>>
            ELSE cpc' = "args" /\ cArg' = cArg + 1
  /\ UNCHANGED <<cSchema, cDepth, cRoot, cTool, cGraph>>
  /\ UNCHANGED <<queryVars, gateVars, streams>>

\* lines 104-112: the root field's entry is pushed to graph.query
PushTool ==
  /\ cpc = "args"
  /\ cArg > Len(RootFields(CompileSchemas[cSchema])[cRoot].args)
  /\ cGraph' = Append(cGraph, cTool)
  /\ cRoot' = cRoot + 1
  /\ cpc' = "root"
  /\ UNCHANGED <<cSchema, cDepth, cArg, cStack, cTool>>
  /\ UNCHANGED <<queryVars, gateVars, streams>>

\* the loop over query.fields is over and the constructor returns
Finish ==
  /\ cpc = "root"
  /\ cRoot > Len(RootFields(CompileSchemas[cSchema]))
  /\ cpc' = "done"
  /\ UNCHANGED <<cSchema, cDepth, cRoot, cArg, cStack, cTool, cGraph>>
  /\ UNCHANGED <<queryVars, gateVars, streams>>

CNext ==
  \/ StartRootField
  \/ FieldsStep
  \/ FieldsReturn
  \/ ArgStep
  \/ FilterStep
  \/ FilterLeaf
  \/ FilterReturn
  \/ PushTool
  \/ Finish

SpecCompile == CInit /\ [][CNext]_vars

\* the constructor is synchronous code: a step that can be taken is taken
SpecCompileLive == SpecCompile /\ WF_vars(CNext)

-----------------------------------------------------------------------------
(* Claims about the compiler, checked under SpecCompile *)

\* C12: for every introspection result, self-referential and mutually
\* recursive object and input types included, and every pathDepth d >= 0,
\* compiling the tools (the selection traversal and the where flattening of
\* every root field) terminates.
C12_CompileTerminates == <>(cpc = "done")

\* the constructor has returned for the schema whose types refer to
\* themselves, with a parameter found below the root of its where input
C12_Witness ==
  /\ cpc = "done"
  /\ CompileSchemas[cSchema] = TypesCyclic
  /\ \E t \in 1..Len(cGraph) : \E param \in Range(cGraph[t].mcpParams) :
       param.path # None /\ Len(param.path[1]) > 1

\* the names of a parameter list
ParamNames(mcpParams) == [k \in 1..Len(mcpParams) |-> mcpParams[k].name]

\* C20: the mcpParams of every compiled root field have pairwise distinct
\* names, whether its scalar arguments stand before or after where, and a
\* scalar argument that stands before where keeps its name against a leaf of
\* the where input (the first discovered entry is the one kept).
C20_ParamNamesDistinct ==
  \A t \in 1..Len(cGraph) :
    LET args == RootFields(CompileSchemas[cSchema])[t].args
    IN  /\ NoDuplicates(ParamNames(cGraph[t].mcpParams))
        /\ \A a, w \in 1..Len(args) :
             (a < w /\ args[w].name = <<"where">> /\ isScalarField(args[a])) =>
               \A param \in Range(cGraph[t].mcpParams) :
                 param.name = args[a].name => param.path = None

-----------------------------------------------------------------------------
(* Specification Spec: the gateway under the SSE transport.  GET /mcp      *)
(* builds a session's server and opens its transport, POST /mcp delivers a *)
(* message to a transport, a tools/call message runs the tool's handler,   *)
(* the upstream answers, the client closes its connection.                 *)

Init ==
  /\ QueryIdle
  /\ CompileIdle
  /\ streams = <<>>
  /\ cfg \in Configs
  /\ running = TRUE
  /\ transports = {}
  /\ sessions = <<>>
  /\ event = NoEvent

\* app.get('/mcp') up to the first await of getOAPIServer / getGraphQLServer:
\* the header capture, and for GraphQL the introspection request
GetMcp(headers) ==
  /\ running
  /\ cfg.transport = "sse"
  /\ Len(sessions) < MaxSessions
  /\ LET graphql == cfg.type = "graphql"
         inputHeader == IF graphql THEN GraphQLInputHeader(cfg, headers)
                        ELSE CaptureHeaders(headers)
         s == Len(sessions) + 1
     IN  /\ sessions' = Append(sessions, NewSession(headers, inputHeader))
         /\ event' = IF graphql
                     THEN UpstreamCall(s, "introspection", IntrospectionHeaders(inputHeader))
                     ELSE Event("load", s, 0, "", inputHeader, NoEnded, NoOutcome, None)
  /\ UNCHANGED <<cfg, running, transports>>
  /\ UNCHANGED <<queryVars, compVars, streams>>

\* the rest of app.get('/mcp'): the awaited answer d (0: none that can be
\* used), the registration loop, the transport and its entry in transports
ServerBuilt(s, d) ==
  /\ running
  /\ s \in 1..Len(sessions)
  /\ sessions[s].phase = "building"
  /\ IF cfg.type = "openapi" /\ d = 0
     THEN \* process.exit(1), lines 127-130
          /\ running' = FALSE
          /\ event' = Event("exit", s, 1, "", <<>>, NoEnded, NoOutcome, None)
          /\ UNCHANGED <<sessions, transports>>
     ELSE LET reg == IF d = 0 THEN [threw |-> TRUE, tools |-> <<>>]
                     ELSE Registration(cfg, d)
          IN  IF reg.threw
              THEN \* getGraphQLServer rejects and so does the route handler
                   /\ sessions' = [sessions EXCEPT
                        ![s].phase = "failed",
                        ![s].connOpen = FALSE,
                        ![s].schema = d,
                        ![s].failure = IF d = 0 THEN "introspection" ELSE "registration"]
                   /\ event' = HttpResponse("GET", s, 500, None)
                   /\ UNCHANGED <<running, transports>>
              ELSE /\ sessions' = [sessions EXCEPT
                        ![s].phase = "open",
                        ![s].schema = d,
                        ![s].tools = reg.tools]
                   /\ transports' = transports \cup {s}
                   /\ event' = HttpResponse("GET", s, 200, Some(SessionId(s)))
                   /\ UNCHANGED running
  /\ UNCHANGED cfg
  /\ UNCHANGED <<queryVars, compVars, streams>>

\* the client's connection closes.  The listeners that remove the entry
\* (res.on('close') line 463, the transport's onclose line 458) exist only
\* once the session is open.
ClientClose(s) ==
  /\ running
  /\ s \in 1..Len(sessions)
  /\ sessions[s].connOpen
  /\ sessions' = [sessions EXCEPT
       ![s].connOpen = FALSE,
       ![s].phase = IF @ = "open" THEN "closed" ELSE @]
  /\ transports' = IF sessions[s].phase = "open" THEN transports \ {s} ELSE transports
  /\ event' = Event("closed", s, 0, "", <<>>, NoEnded, NoOutcome, None)
  /\ UNCHANGED <<cfg, running>>
  /\ UNCHANGED <<queryVars, compVars, streams>>

\* app.post('/mcp'), SSE branch; msg is 0 for a message that calls no tool
\* and t for a tools/call of the session's t-th tool (one call of a session
\* is in flight at a time)
PostMcp(key, msg) ==
  /\ running
  /\ cfg.transport = "sse"
  /\ IF key = None
     THEN /\ msg = 0
          /\ event' = HttpResponse("POST", 0, 400, key)
          /\ UNCHANGED sessions
     ELSE IF Lookup(transports, key[1]) = "undefined"
     THEN /\ msg = 0
          /\ event' = HttpResponse("POST", 0, 404, key)
          /\ UNCHANGED sessions
     ELSE IF Lookup(transports, key[1]) = "inherited"
     THEN \* transport.handlePostMessage is not a function: caught, line 393
          /\ msg = 0
          /\ event' = HttpResponse("POST", 0, 500, key)
          /\ UNCHANGED sessions
     ELSE LET s == key[1].n
          IN  /\ \/ msg = 0
                 \/ /\ msg \in 1..Len(sessions[s].tools)
                    /\ sessions[s].call.stage = "none"
                    /\ ParametersHeld(sessions[s].tools, 1) < MaxParameters
              /\ sessions' = IF msg = 0 THEN sessions
                             ELSE [sessions EXCEPT
                                     ![s].call = [stage |-> "received", tool |-> msg]]
              /\ event' = HttpResponse("POST", s, 202, key)
  /\ UNCHANGED <<cfg, running, transports>>
  /\ UNCHANGED <<queryVars, compVars, streams>>

\* the tool's handler up to the await of the upstream request; raises: the
\* code before it throws
ToolHandler(s, raises) ==
  /\ running
  /\ s \in 1..Len(sessions)
  /\ sessions[s].call.stage = "received"
  /\ IF raises
     THEN LET ended == HandlerCatch(Ended("Error", "", "none"))
          IN  /\ sessions' = [sessions EXCEPT ![s].call = NoCall]
              /\ event' = ToolResult(s, ended, NoOutcome)
     ELSE IF cfg.type = "graphql"
     THEN /\ sessions' = [sessions EXCEPT
               ![s].call.stage = "sent",
               ![s].inputHeader = RequestHeaders(@)]
          /\ event' = UpstreamCall(s, "tool", RequestHeaders(sessions[s].inputHeader))
     ELSE \* lines 197-198: the header parameters are appended to the
          \* tool's apiCallDetails.parameters
          /\ LET headerParameters == HeaderParameters(sessions[s].inputHeader)
                 t == sessions[s].call.tool
             IN  sessions' = [sessions EXCEPT
                   ![s].call.stage = "sent",
                   ![s].tools[t].parameters =
                     IF Len(headerParameters) > 0 THEN @ \o headerParameters ELSE @]
          /\ event' = UpstreamCall(s, "tool",
                        ExecuteApiCallHeaders(cfg, sessions[s].inputHeader))
  /\ UNCHANGED <<cfg, running, transports>>
  /\ UNCHANGED <<queryVars, compVars, streams>>

\* the upstream's answer and the rest of the handler; raises: the awaited
\* executeApiCall rejects (requestData catches whatever its request throws)
UpstreamReply(s, outcome, raises) ==
  /\ running
  /\ s \in 1..Len(sessions)
  /\ sessions[s].call.stage = "sent"
  /\ raises => cfg.type = "openapi"
  /\ LET result == IF cfg.type = "graphql" THEN requestDataResult(outcome)
                   ELSE executeApiCallResult(outcome)
         ended == IF raises THEN HandlerCatch(Ended("Error", "", "none"))
                  ELSE HandlerCatch(HandlerTry(result))
     IN  /\ sessions' = [sessions EXCEPT ![s].call = NoCall]
         /\ event' = ToolResult(s, ended, IF raises THEN NoOutcome ELSE outcome)
  /\ UNCHANGED <<cfg, running, transports>>
  /\ UNCHANGED <<queryVars, compVars, streams>>

\* app.delete('/mcp')
DeleteMcp ==
  /\ running
  /\ event' = HttpResponse("DELETE", 0, 405, None)
  /\ UNCHANGED <<cfg, running, transports, sessions>>
  /\ UNCHANGED <<queryVars, compVars, streams>>

Next ==
  \/ \E headers \in InboundHeaders : GetMcp(headers)
  \/ \E s \in 1..MaxSessions, d \in 0..Len(Graphs) : ServerBuilt(s, d)
  \/ \E s \in 1..MaxSessions : ClientClose(s)
  \/ \E key \in PostKeys, msg \in 0..Len(GraphQuery) : PostMcp(key, msg)
  \/ \E s \in 1..MaxSessions, raises \in BOOLEAN : ToolHandler(s, raises)
  \/ \E s \in 1..MaxSessions, outcome \in Outcomes, raises \in BOOLEAN :
       UpstreamReply(s, outcome, raises)
  \/ DeleteMcp

Spec == Init /\ [][Next]_vars

-----------------------------------------------------------------------------
(* Claims about the gateway, checked under Spec *)

IsBuilt(s) == sessions[s].phase \in {"open", "closed"}

\* the names a session's tools come from, in discovery order: the root fields
\* of the compiled graph, or the tool names the operations map to
DiscoveredNames(s) ==
  IF cfg.type = "graphql"
  THEN [i \in 1..Len(Graphs[sessions[s].schema]) |-> Graphs[sessions[s].schema][i].name]
  ELSE [i \in 1..Len(OpenApiSpecs[sessions[s].schema]) |->
          BaseName(OpenApiSpecs[sessions[s].schema][i])]

\* the names the filter patterns are matched against
FilteredNames(s) ==
  IF cfg.type = "graphql" THEN DiscoveredNames(s)
  ELSE [i \in 1..Len(OpenApiSpecs[sessions[s].schema]) |->
          OpenApiSpecs[sessions[s].schema][i].operationId]

IsRegisteredOp(s, i) == \E t \in 1..Len(sessions[s].tools) : sessions[s].tools[t].op = i

RegisteredName(s, i) ==
  sessions[s].tools[CHOOSE t \in 1..Len(sessions[s].tools) : sessions[s].tools[t].op = i].name

\* how many of the first i discovered names are the i-th one
Occurrence(names, i) == Cardinality({j \in 1..i : names[j] = names[i]})

\* C1: every inbound header whose name contains auth, key, api or cookie is on
\* every upstream call of its session with exactly the value it had on the
\* inbound request, whatever credential or custom header is configured.
C1_InboundHeadersReachUpstream ==
  event.type = "upstream" =>
    \A i \in 1..Len(sessions[event.session].inbound) :
      LET h == sessions[event.session].inbound[i]
      IN  IsPropagated(h.k) =>
            HasKey(event.headers, h.k) /\ Get(event.headers, h.k) = h.v

\* C5: registration does not fail; the tools of a session have pairwise
\* distinct names; and when one operation of a group with the same name is
\* registered, all of the group are, the k-th of them (k > 1) under the name
\* suffixed _k.
C5_ToolNamesDistinctNoneDropped ==
  \A s \in 1..Len(sessions) :
    /\ sessions[s].failure # "registration"
    /\ IsBuilt(s) =>
         LET names == DiscoveredNames(s)
         IN  /\ NoDuplicates([t \in 1..Len(sessions[s].tools) |-> sessions[s].tools[t].name])
             /\ \A i, j \in 1..Len(names) :
                  (names[i] = names[j] /\ IsRegisteredOp(s, i)) =>
                    /\ IsRegisteredOp(s, j)
                    /\ RegisteredName(s, j) =
                         IF Occurrence(names, j) = 1 THEN names[j]
                         ELSE Append(names[j], Suffixes[Occurrence(names, j) - 1])

\* C6: when the whitelist is non-empty the blacklist is not consulted: a root
\* field or operation that a whitelist entry names is registered as a tool,
\* even if the blacklist matches it too.
C6_WhitelistedToolRegistered ==
  \A s \in 1..Len(sessions) :
    (IsBuilt(s) /\ cfg.whitelist # None /\ Len(cfg.whitelist[1]) > 0) =>
      \A i \in 1..Len(FilteredNames(s)) :
        Includes(cfg.whitelist[1], FilteredNames(s)[i]) => IsRegisteredOp(s, i)

\* C7: for GraphQL tools the filter patterns are globs: a whitelist [P]
\* registers exactly the root fields whose name matches the glob P, and a
\* blacklist [P] with no whitelist removes exactly those.
C7_GraphQLFiltersAreGlobs ==
  \A s \in 1..Len(sessions) :
    (IsBuilt(s) /\ cfg.type = "graphql" /\ NoDuplicates(DiscoveredNames(s))) =>
      LET names == DiscoveredNames(s)
      IN  /\ (cfg.whitelist = None /\ Len(cfg.blacklist) = 1
              /\ ~StrIncludes(cfg.blacklist[1], <<".">>)) =>
               \A i \in 1..Len(names) :
                 IsRegisteredOp(s, i) <=> ~GlobMatch(cfg.blacklist[1], names[i])
          /\ (cfg.whitelist # None /\ Len(cfg.whitelist[1]) = 1 /\ Len(cfg.blacklist) = 0) =>
               \A i \in 1..Len(names) :
                 IsRegisteredOp(s, i) <=> GlobMatch(cfg.whitelist[1][1], names[i])

\* C8: every upstream outcome of a GraphQL tool call maps to one tool-protocol
\* outcome: 2xx gives a content result; 400 and 404 give an McpError
\* InvalidParams; every other 4xx, every 5xx and a network failure give an
\* McpError InternalError; and an error carries the upstream body as its data
\* when a body was received.
C8_UpstreamOutcomeMapsToToolOutcome ==
  (event.type = "result" /\ cfg.type = "graphql" /\ event.upstream # NoOutcome) =>
    LET o == event.upstream
    IN  /\ (o.response /\ o.status >= 200 /\ o.status < 300) => event.kind = "content"
        /\ (o.response /\ o.status \in {400, 404}) =>
             event.kind = "McpError" /\ event.code = "InvalidParams"
        /\ (~o.response \/ (o.status >= 400 /\ o.status \notin {400, 404})) =>
             event.kind = "McpError" /\ event.code = "InternalError"
        /\ (event.kind = "McpError" /\ o.body) => event.data = "body"

\* a 404 with a body has been answered by InvalidParams carrying the body
C8_Witness ==
  /\ cfg.type = "graphql"
  /\ event.type = "result"
  /\ event.upstream = Response(404, TRUE)
  /\ event.kind = "McpError"
  /\ event.code = "InvalidParams"
  /\ event.data = "body"

\* C9: every tool invocation ends in a content result or in an McpError
\* (InvalidParams or InternalError), whatever was raised while building or
\* executing the upstream request; and when it has ended and the client is
\* still connected, the session is still registered and open, the process
\* still runs and the session takes the next invocation.
C9_InvocationEndsInContentOrMcpError ==
  event.type = "result" =>
    /\ \/ event.kind = "content"
       \/ event.kind = "McpError" /\ event.code \in {"InvalidParams", "InternalError"}
    /\ running
    /\ sessions[event.session].connOpen =>
         /\ event.session \in transports
         /\ sessions[event.session].phase = "open"
         /\ sessions[event.session].call = NoCall

\* an invocation has failed on an exception raised before the upstream request
\* and its session is still registered
C9_Witness ==
  /\ event.type = "result"
  /\ event.kind = "McpError"
  /\ event.upstream = NoOutcome
  /\ sessions[event.session].connOpen
  /\ event.session \in transports

\* C10: the session map holds exactly the ids of the sessions that were opened
\* and not yet closed; a POST without sessionId is answered 400, a POST whose
\* sessionId is not in the map is answered 404, and a POST whose sessionId is
\* in the map is delivered to that session's transport.
C10_SessionMapHoldsOpenSessions ==
  /\ transports = {s \in 1..Len(sessions) :
                     sessions[s].phase = "open" /\ sessions[s].connOpen}
  /\ (event.type = "response" /\ event.call = "POST") =>
       IF event.key = None THEN event.status = 400
       ELSE IF event.key[1].kind = "uuid" /\ event.key[1].n \in transports
       THEN event.status = 202 /\ event.session = event.key[1].n
       ELSE event.status = 404

\* C11: once a session's tools are compiled and registered, invoking them
\* any number of times leaves every tool descriptor of the session as it was
\* (for a REST tool the call plan's parameter list).
C11_RegistryReadOnly ==
  [][\A s \in 1..Len(sessions) :
       sessions[s].phase = "open" => sessions'[s].tools = sessions[s].tools]_vars

\* C16: for every registered OpenAPI tool, a top-level parameter is
\* registered required exactly when the input schema's required list names it,
\* and a hoisted request-body property is registered required exactly when
\* the body schema's required list names it.
C16_RequiredFollowsSchema ==
  \A s \in 1..Len(sessions) :
    (cfg.type = "openapi" /\ IsBuilt(s)) =>
      \A t \in 1..Len(sessions[s].tools) :
        LET tool == sessions[s].tools[t]
            op == OpenApiSpecs[sessions[s].schema][tool.op]
            inputSchema == InputSchema(op)
        IN  /\ \A k \in 1..Len(op.parameters) :
                 Includes(tool.required, op.parameters[k].name)
                   <=> Includes(inputSchema.required, op.parameters[k].name)
            /\ op.requestBody # None =>
                 \A k \in 1..Len(op.requestBody[1].properties) :
                   Includes(tool.required, op.requestBody[1].properties[k])
                     <=> Includes(op.requestBody[1].required,
                                  op.requestBody[1].properties[k])

\* C23: a failure to load the spec or to map it to tools while one session
\* starts fails only that session: the server process keeps running, the
\* sessions already in the session map stay registered and keep being
\* served, and the failed session gets no entry in the map.
C23_StartFailureFailsOnlyItsSession ==
  /\ running
  /\ \A s \in 1..Len(sessions) : sessions[s].phase = "failed" => s \notin transports

-----------------------------------------------------------------------------
(* Specification SpecStream: the gateway under the streaming transport.    *)
(* Every POST /mcp builds a server and a transport of its own (lines       *)
(* 400-434); GET and DELETE are answered 405.  A response closes when the  *)
(* client goes away or the response has been written to its end, at any    *)
(* moment of the handler.                                                  *)

\* the POST requests followed
MaxStreams == 2

\* the configurations above with config.transport = 'stream'
StreamConfigs == { [c EXCEPT !.transport = "stream"] : c \in Configs }

\* a POST /mcp and what its handler has created.  phase: building (the
\* server is awaited, lines 403-408), connected (transport.handleRequest is
\* awaited, line 414), handled (the close listener of line 415 is
\* registered), caught (line 420), failed (the awaited server rejected).
NewStream(headers) ==
  [phase |-> "building", resOpen |-> TRUE, inbound |-> headers, schema |-> 0,
   listener |-> FALSE, transportClosed |-> FALSE, serverClosed |-> FALSE]

SInit ==
  /\ QueryIdle
  /\ CompileIdle
  /\ cfg \in StreamConfigs
  /\ running = TRUE
  /\ transports = {}
  /\ sessions = <<>>
  /\ event = NoEvent
  /\ streams = <<>>

\* app.post('/mcp'), stream branch, up to the first await of getOAPIServer /
\* getGraphQLServer
StreamPost(headers) ==
  /\ running
  /\ cfg.transport = "stream"
  /\ Len(streams) < MaxStreams
  /\ LET graphql == cfg.type = "graphql"
         inputHeader == IF graphql THEN GraphQLInputHeader(cfg, headers)
                        ELSE CaptureHeaders(headers)
         s == Len(streams) + 1
     IN  /\ streams' = Append(streams, NewStream(headers))
         /\ event' = IF graphql
                     THEN UpstreamCall(s, "introspection", IntrospectionHeaders(inputHeader))
                     ELSE Event("load", s, 0, "", inputHeader, NoEnded, NoOutcome, None)
  /\ UNCHANGED <<cfg, running, transports, sessions>>
  /\ UNCHANGED <<queryVars, compVars>>

\* the awaited server arrives (d: the upstream's answer, 0 for none that can
\* be used), lines 403-413: outside the try, so a rejection ends the handler;
\* else the transport is made and connected
StreamServerBuilt(s, d) ==
  /\ running
  /\ s \in 1..Len(streams)
  /\ streams[s].phase = "building"
  /\ IF cfg.type = "openapi" /\ d = 0
     THEN \* process.exit(1), lines 127-130
          /\ running' = FALSE
          /\ event' = Event("exit", s, 1, "", <<>>, NoEnded, NoOutcome, None)
          /\ UNCHANGED streams
     ELSE LET reg == IF d = 0 THEN [threw |-> TRUE, tools |-> <<>>]
                     ELSE Registration(cfg, d)
          IN  /\ streams' = [streams EXCEPT
                   ![s].phase = IF reg.threw THEN "failed" ELSE "connected",
                   ![s].schema = d,
                   ![s].resOpen = IF reg.threw THEN FALSE ELSE @]
              /\ event' = IF reg.threw /\ streams[s].resOpen
                          THEN HttpResponse("POST", s, 500, None)
                          ELSE Event("built", s, 0, "", <<>>, NoEnded, NoOutcome, None)
              /\ UNCHANGED running
  /\ UNCHANGED <<cfg, transports, sessions>>
  /\ UNCHANGED <<queryVars, compVars>>

\* the awaited transport.handleRequest settles, lines 414-433: when it has
\* returned the close listener is registered, when it has thrown the catch
\* answers 500 unless the headers are sent (headersSent)
StreamHandled(s, throws, headersSent) ==
  /\ running
  /\ s \in 1..Len(streams)
  /\ streams[s].phase = "connected"
  /\ headersSent => throws
  /\ IF throws
     THEN LET answers == streams[s].resOpen /\ ~headersSent
          IN  /\ streams' = [streams EXCEPT
                   ![s].phase = "caught",
                   ![s].resOpen = IF answers THEN FALSE ELSE @]
              /\ event' = IF answers THEN HttpResponse("POST", s, 500, None)
                          ELSE Event("caught", s, 0, "", <<>>, NoEnded, NoOutcome, None)
     ELSE /\ streams' = [streams EXCEPT ![s].phase = "handled", ![s].listener = TRUE]
          /\ event' = Event("handled", s, 0, "", <<>>, NoEnded, NoOutcome, None)
  /\ UNCHANGED <<cfg, running, transports, sessions>>
  /\ UNCHANGED <<queryVars, compVars>>

\* the response closes; the listener of lines 415-419, if it is registered
\* by now, closes the transport and the server
StreamClose(s) ==
  /\ running
  /\ s \in 1..Len(streams)
  /\ streams[s].resOpen
  /\ streams' = [streams EXCEPT
       ![s].resOpen = FALSE,
       ![s].transportClosed = streams[s].listener,
       ![s].serverClosed = streams[s].listener]
  /\ event' = Event("closed", s, 0, "", <<>>, NoEnded, NoOutcome, None)
  /\ UNCHANGED <<cfg, running, transports, sessions>>
  /\ UNCHANGED <<queryVars, compVars>>

\* app.get('/mcp'), stream branch, lines 482-493
StreamGetMcp ==
  /\ running
  /\ cfg.transport = "stream"
  /\ event' = HttpResponse("GET", 0, 405, None)
  /\ UNCHANGED <<cfg, running, transports, sessions, streams>>
  /\ UNCHANGED <<queryVars, compVars>>

SNext ==
  \/ \E headers \in InboundHeaders : StreamPost(headers)
  \/ \E s \in 1..MaxStreams, d \in 0..Len(Graphs) : StreamServerBuilt(s, d)
  \/ \E s \in 1..MaxStreams, throws \in BOOLEAN, headersSent \in BOOLEAN :
       StreamHandled(s, throws, headersSent)
  \/ \E s \in 1..MaxStreams : StreamClose(s)
  \/ StreamGetMcp
  \/ DeleteMcp

\* what the handler awaits settles: the upstream answers the introspection
\* and transport.handleRequest returns or throws.  Requests and closes are
\* the clients' and are not forced.
SpecStream ==
  /\ SInit
  /\ [][SNext]_vars
  /\ \A s \in 1..MaxStreams :
       /\ WF_vars(\E d \in 0..Len(Graphs) : StreamServerBuilt(s, d))
       /\ WF_vars(\E throws \in BOOLEAN, headersSent \in BOOLEAN :
                    StreamHandled(s, throws, headersSent))

-----------------------------------------------------------------------------
(* Claims about the streaming transport, checked under SpecStream *)

\* nothing of the session is left: its transport and server are closed, or
\* none was made, or the process is gone
Released(s) ==
  \/ ~running
  \/ streams[s].phase = "failed"
  \/ streams[s].transportClosed /\ streams[s].serverClosed

\* C17: under the streaming transport, whenever the response of a POST /mcp
\* closes, at whatever point of the handler (before transport.handleRequest
\* has returned included), the session's transport and server are eventually
\* closed.
C17_CloseReleasesSession ==
  \A s \in 1..MaxStreams :
    (s <= Len(streams) /\ ~streams[s].resOpen)
      ~> (s <= Len(streams) /\ Released(s))

====
